---- MODULE Spec2Model ----
(***************************************************************************)
(* Per-frame animation core of the portfolio site: Submarine spotlight     *)
(* flicker (services/submarine.js), OceanBackground particle layers        *)
(* (the class appended to services/README.md) and CameraMovement parallax. *)
(*                                                                         *)
(* Numbers are fixed point.  Times are integer milliseconds.  Light        *)
(* intensities are in thousandths (1.5 -> 1500), opacities in hundredths   *)
(* (0.18 -> 18).  Every Math.random() draw is a choice from a set holding  *)
(* the two ends of the drawn interval.  Scene coordinates are in           *)
(* millionths of a unit (18 -> 18000000), close to the resolution of the   *)
(* Float32Array the particle positions live in; pointer coordinates,       *)
(* colours, sines and light intensities are in thousandths.                *)
(***************************************************************************)
EXTENDS Integers, Sequences, FiniteSets, TLC

VARIABLES
    now,                          \* Date.now(), the wall clock in ms
    modelState,                   \* GLTF load: "loading", "loaded", "failed"
    spotlights,                   \* Submarine.spotlights: intensity of each
    spotlightBeams,               \* Submarine.spotlightBeams: opacity, baseOpacity
    lastFlickerTime,
    nextFlickerInterval,
    isFlickering,
    flickerCounter,
    lastFlickerStateChangeTime,
    currentFlickerStateDuration,
    maxFlickersInSequence,
    toggleCount,                  \* history: runs of the toggle branch in this sequence
    attachedWhileFlickering,      \* history: isFlickering when onModelLoaded ran
    subMouseX, subMouseY,         \* Submarine.mouseX / mouseY, in thousandths
    gizmoPosition,                \* gizmoGroup.position x and y, in hundredths
    gizmoRotationY,               \* gizmoGroup.rotation.y, in thousandths of a radian
    subClockStart,                \* when Submarine.clock was started, <<>> before
    subFrames,                    \* history: update() calls, counted up to SubMouseFrames
    framePending,                 \* an animation frame is due: the clock moved on since update()
    oceanMouseX, oceanMouseY,     \* OceanBackground.mouseX / mouseY, in thousandths
    elapsedTime,                  \* what OceanBackground.clock.getElapsedTime() returns next, in ms
    frames,                       \* history: OceanBackground.update() calls so far
    positions1,                   \* particleSystem1 position array (flat x,y,z)
    colors1,                      \* particleSystem1 color array (flat r,g,b)
    originalPositions,            \* OceanBackground.originalPositions (flat x,y,z)
    velocities,                   \* OceanBackground.velocities: one {x,y,z} per particle
    positions2,                   \* particleSystem2 position array (flat x,y,z)
    positions3,                   \* particleSystem3 position array (flat x,y,z)
    cursorPointLight,             \* position x, y and intensity
    cursorAmbientLight,
    mouseX, mouseY,               \* CameraMovement.mouseX / mouseY, in thousandths
    cursorX, cursorY,             \* CameraMovement.cursorX / cursorY, in pixels
    isMoving,
    cursorTimeout,                \* the handle of the last idle timer set, 0 before the first
    cursorLightOpacity,           \* cursorLight.style.opacity
    cameras,                      \* CameraMovement.cameras
    baseCameraPositions,          \* CameraMovement.baseCameraPositions
    cameraPosition,               \* camera.position of each camera
    moves,                        \* history: pointer moves so far
    baseUpdates,                  \* history: updateCameraBasePosition calls so far
    scrollDepth,                  \* OceanBackground.scrollDepth, in thousandths
    fog,                          \* scene.fog: color and density
    background,                   \* scene.background
    ambientLight,                 \* ambientLight.intensity, in millionths
    directionalLight,             \* directionalLight.intensity, in millionths
    scrollCalls,                  \* history: the arguments of the updateScrollDepth calls
    scrollResults,                \* history: what the first call with each argument produced
    systems,                      \* SceneManager.systems
    rafPending,                   \* requestAnimationFrame callbacks of animate() pending
    updateLog,                    \* the update() calls of the last animate(), in order
    disposed,                     \* the actors whose dispose() has run
    registered,                   \* history: the arguments of the addSystem calls
    animates,                     \* history: executions of animate() so far
    camNow,                       \* the clock of the page's timers, in ms
    timers,                       \* the setTimeout timers pending: id and due time
    lastMoveTime,                 \* history: camNow at the last pointer move
    constructed,                  \* how the last constructor call of each class ended
    diagnostics,                  \* the classes whose constructor logged console.error
    gizmoFadeStartTime,           \* RotatableCard.gizmoFadeStartTime: "null" or "set"
    gizmoFadeProgress,            \* RotatableCard.gizmoFadeProgress, in thousandths
    gizmoOpacity,                 \* opacity of the materials of brandGizmoGroup, thousandths
    renders,                      \* history: ListManager.render() calls so far
    kelpModelState,               \* GLTF load of the kelp: "loading", "loaded", "failed"
    kelpObjects,                  \* Kelp.kelpObjects: userData and rotation of each
    kelpFrames,                   \* history: Kelp.update() calls so far
    kelpFirst,                    \* history: time and result of the first Kelp.update()
    items,                        \* ListManager.items: id and title of each
    containerItems,               \* the data-item-id of the rows in the list's container
    previewUrl,                   \* WebsitePreview.options.url: 1 is the first url, 2 the next
    isLoaded,                     \* WebsitePreview.isLoaded
    hasError,                     \* WebsitePreview.hasError
    previewTimeout,               \* the url the pending 10 s timer was armed under, 0 if none
    navigation,                   \* the iframe's navigation: "inflight" or "settled"
    onErrorCalls,                 \* history: options.onError calls while each url was set
    timeoutReports,               \* history: <<url armed under, url reported for>>
    panel,                        \* ColorConfigPanel.panel: an element, 0 for null
    isVisible,                    \* ColorConfigPanel.isVisible
    attachedPanels,               \* the #color-config-panel children of document.body
    showsAwaiting,                \* show() calls suspended at await this.createPanel()
    showTimers,                   \* pending setTimeout(() => this.show(), 100) of resetColors
    panelsCreated,                \* history: elements made by createPanel
    lastCall,                     \* history: the call or callback that ran last
    decoratedElements,            \* FrameDecorator.decoratedElements: element -> decorator
    frameType,                    \* FrameDecorator.options.frameType
    lastDestroyed                 \* history: elements whose decorator the last call destroyed

subVars == <<now, modelState, spotlights, spotlightBeams, lastFlickerTime,
             nextFlickerInterval, isFlickering, flickerCounter,
             lastFlickerStateChangeTime, currentFlickerStateDuration,
             maxFlickersInSequence, toggleCount, attachedWhileFlickering,
             subMouseX, subMouseY,
             gizmoPosition, gizmoRotationY, subClockStart, subFrames,
             framePending>>

\* the fields of the Submarine that the flicker code leaves alone
gizmoVars == <<subMouseX, subMouseY, gizmoPosition, gizmoRotationY,
               subClockStart, subFrames>>

oceanVars == <<oceanMouseX, oceanMouseY, elapsedTime, frames, positions1,
               colors1, originalPositions, velocities, positions2, positions3,
               cursorPointLight, cursorAmbientLight>>

camVars == <<mouseX, mouseY, cursorX, cursorY, isMoving, cursorTimeout,
             cursorLightOpacity, cameras, baseCameraPositions, cameraPosition,
             moves, baseUpdates>>

scrollVars == <<scrollDepth, fog, background, ambientLight, directionalLight,
                scrollCalls, scrollResults>>

\* the rest of the page: what the Submarine, the particle layers and the
\* CameraMovement do not touch
schedVars == <<systems, rafPending, updateLog, disposed, registered, animates>>

timerVars == <<camNow, timers, lastMoveTime>>

buildVars == <<constructed, diagnostics, gizmoFadeStartTime, gizmoFadeProgress,
               gizmoOpacity, renders>>

kelpVars == <<kelpModelState, kelpObjects, kelpFrames, kelpFirst>>

listVars == <<items, containerItems>>

previewVars == <<previewUrl, isLoaded, hasError, previewTimeout, navigation,
                 onErrorCalls, timeoutReports>>

\* the components of the page outside the scene
panelVars == <<panel, isVisible, attachedPanels, showsAwaiting, showTimers,
               panelsCreated, lastCall>>

frameVars == <<decoratedElements, frameType, lastDestroyed>>

widgetVars == <<previewVars, panelVars, frameVars>>

pageVars == <<scrollVars, schedVars, timerVars, buildVars, kelpVars, listVars,
              widgetVars>>

vars == <<subVars, oceanVars, camVars, pageVars>>

(***************************************************************************)
(* Bounds of the model.                                                    *)
(***************************************************************************)
\* Date.now() when the Submarine is constructed (any real clock is far
\* beyond the longest flicker interval).
StartTime == 30000
\* The clock is followed for this many ms after StartTime.
Horizon == 12000
\* Submarine.updateMousePosition is followed until this many update() calls.
SubMouseFrames == 1

(***************************************************************************)
(* Arithmetic of the fixed-point numbers.                                   *)
(***************************************************************************)
Abs(a) == IF a < 0 THEN -a ELSE a

\* a / b rounded to the nearest integer, the fixed-point image of a float
\* product or quotient
RoundDiv(a, b) ==
    IF a >= 0 THEN (a + b \div 2) \div b ELSE -((b \div 2 - a) \div b)

RECURSIVE SqrtSearch(_, _, _)
SqrtSearch(n, lo, hi) ==
    IF lo >= hi THEN lo
    ELSE LET mid == (lo + hi + 1) \div 2
         IN  IF mid * mid <= n THEN SqrtSearch(n, mid, hi)
                               ELSE SqrtSearch(n, lo, mid - 1)

\* Math.sqrt on a non-negative integer, rounded down
Sqrt(n) == SqrtSearch(n, 0, 46340)

\* Math.sin of an angle in thousandths of a radian, in thousandths
\* (Bhaskara's rational approximation, within 0.002 of the sine).
Pi == 3142
SinHalfWave(x) ==
    LET t == x * (Pi - x)
    IN  (16 * t) \div ((5 * Pi * Pi - 4 * t) \div 1000)

Sin(a) ==
    LET x == a % (2 * Pi)
    IN  IF x <= Pi THEN SinHalfWave(x) ELSE -SinHalfWave(x - Pi)

\* Math.cos
Cos(a) == Sin(a + Pi \div 2)

(***************************************************************************)
(* Submarine: constants of the flicker code.                               *)
(***************************************************************************)
FullIntensity == 1500
\* gizmoGroup.rotation.set(Math.PI / 8, Math.PI / -2, 0)
BaseRotationY == -(Pi \div 2)
BaseOpacity == 18
DimOpacity == 2
SpotlightCount == 3

\* 10000 + Math.random() * 10000
IntervalDraws == {10000, 19999}
\* Steps by which the wall clock is seen to advance between two calls.
FrameStep == 250
Deltas == {FrameStep, 10000}

\* Mutant of StartsSequence: the interval compared with >=.
StartsSequenceAtInterval(flickering, currentTime, lastTime, interval) ==
    ~flickering /\ currentTime - lastTime >= interval

\* if (!this.isFlickering && timeSinceLastFlicker > this.nextFlickerInterval)
StartsSequence(flickering, currentTime, lastTime, interval) ==
    ~flickering /\ currentTime - lastTime > interval

\* if (timeSinceLastStateChange > this.currentFlickerStateDuration)
StateDurationPassed(currentTime, lastChange, duration) ==
    currentTime - lastChange > duration

\* Mutants of SequenceFinished: the comparison off by one either way.
SequenceFinishedLate(counter, maxFlickers) ==
    counter > maxFlickers * 2 + 1

SequenceFinishedEarly(counter, maxFlickers) ==
    counter >= maxFlickers * 2

\* if (this.flickerCounter > this.maxFlickersInSequence * 2)
SequenceFinished(counter, maxFlickers) ==
    counter > maxFlickers * 2

\* Mutant of StartCounter: the counter is not reset when a sequence starts.
StartCounterKept(counter) ==
    counter

\* this.flickerCounter = 0, on starting a sequence
StartCounter(counter) ==
    0

\* Mutant of FullPowerSpotlights: the beam's opacity value written to
\* the light's intensity.
FullPowerMixedUp(lights) ==
    [i \in DOMAIN lights |-> BaseOpacity]

\* "Ensure lights are back to full power": spotlight.intensity = 1.5
FullPowerSpotlights(lights) ==
    [i \in DOMAIN lights |-> FullIntensity]

\* Mutant of BrightSpotlights: the three lights of addSpotlights are written,
\* attached or not.
BrightSpotlightsAll(lights) ==
    [i \in 1..SpotlightCount |-> FullIntensity]

\* "SET TO BRIGHT/ON STATE": spotlight.intensity = 1.5
BrightSpotlights(lights) ==
    [i \in DOMAIN lights |-> FullIntensity]

\* material.opacity = userData.baseOpacity, for every beam
RestoredBeams(beams) ==
    [i \in DOMAIN beams |-> [beams[i] EXCEPT !.opacity = beams[i].baseOpacity]]

SubInit ==
    /\ now = StartTime
    /\ modelState = "loading"
    /\ spotlights = <<>>
    /\ spotlightBeams = <<>>
    /\ lastFlickerTime = 0
    /\ nextFlickerInterval \in IntervalDraws
    /\ isFlickering = FALSE
    /\ flickerCounter = 0
    /\ lastFlickerStateChangeTime = 0
    /\ currentFlickerStateDuration = 0
    /\ maxFlickersInSequence = 0
    /\ toggleCount = 0
    /\ attachedWhileFlickering = FALSE
    /\ subMouseX = 0
    /\ subMouseY = 0
    /\ gizmoPosition = [x |-> -1200, y |-> 0]
    /\ gizmoRotationY = BaseRotationY
    /\ subClockStart = <<>>
    /\ subFrames = 0
    /\ framePending = TRUE

\* The wall clock advances from one animation frame to the next: animate()
\* calls update() once per frame, so the clock is seen to move on only after
\* the update() of the frame before, which has processed any passed threshold.
\* Past the horizon the clock advances only to let a running sequence end.
Tick(d) ==
    /\ ~framePending
    /\ IF isFlickering
       THEN ~StateDurationPassed(now, lastFlickerStateChangeTime,
                                 currentFlickerStateDuration)
       ELSE ~StartsSequence(isFlickering, now, lastFlickerTime, nextFlickerInterval)
    /\ \/ now + d <= StartTime + Horizon
       \/ isFlickering /\ d = FrameStep
    /\ now' = now + d
    /\ framePending' = TRUE
    /\ UNCHANGED <<oceanVars, camVars, pageVars>>
    /\ UNCHANGED <<modelState, spotlights, spotlightBeams, lastFlickerTime,
                   nextFlickerInterval, isFlickering, flickerCounter,
                   lastFlickerStateChangeTime, currentFlickerStateDuration,
                   maxFlickersInSequence, toggleCount, attachedWhileFlickering,
                   gizmoVars>>

\* Mutant of AddedSpotlights: the lights are created dimmed.
AddedSpotlightsDim(lights) ==
    lights \o [i \in 1..SpotlightCount |-> 50]

\* addSpotlights: new THREE.SpotLight(0xf0d060, 1.5, ...) pushed for each of
\* the spotlight positions
AddedSpotlights(lights) ==
    lights \o [i \in 1..SpotlightCount |-> FullIntensity]

\* loader.load success callback: onModelLoaded -> addSpotlights
OnModelLoaded ==
    /\ modelState = "loading"
    /\ modelState' = "loaded"
    /\ UNCHANGED <<oceanVars, camVars, pageVars>>
    /\ spotlights' = AddedSpotlights(spotlights)
    /\ spotlightBeams' = spotlightBeams \o
                             [i \in 1..SpotlightCount |->
                                [opacity |-> BaseOpacity, baseOpacity |-> BaseOpacity]]
    /\ attachedWhileFlickering' = isFlickering
    /\ UNCHANGED <<now, lastFlickerTime, nextFlickerInterval, isFlickering,
                   flickerCounter, lastFlickerStateChangeTime,
                   currentFlickerStateDuration, maxFlickersInSequence, toggleCount,
                   gizmoVars, framePending>>

\* loader.load error callback: only logs
OnModelError ==
    /\ modelState = "loading"
    /\ modelState' = "failed"
    /\ UNCHANGED <<oceanVars, camVars, pageVars>>
    /\ UNCHANGED <<now, spotlights, spotlightBeams, lastFlickerTime,
                   nextFlickerInterval, isFlickering, flickerCounter,
                   lastFlickerStateChangeTime, currentFlickerStateDuration,
                   maxFlickersInSequence, toggleCount, attachedWhileFlickering,
                   gizmoVars, framePending>>

\* Submarine.updateSpotlights: the look-around rotation, then the flicker.
UpdateSpotlights(elapsedTimeMs) ==
    /\ gizmoRotationY' =
          BaseRotationY + RoundDiv(Sin(elapsedTimeMs \div 5) * 50, 1000)
    /\ \E maxDraw \in (2..8), firstDraw \in {100, 299} :
      LET starts == StartsSequence(isFlickering, now, lastFlickerTime,
                                   nextFlickerInterval)
          flick1 == IF starts THEN TRUE ELSE isFlickering
          count1 == IF starts THEN StartCounter(flickerCounter) ELSE flickerCounter
          lastT1 == IF starts THEN now ELSE lastFlickerTime
          lastC1 == IF starts THEN now ELSE lastFlickerStateChangeTime
          max1   == IF starts THEN maxDraw ELSE maxFlickersInSequence
          dur1   == IF starts THEN firstDraw ELSE currentFlickerStateDuration
          togg1  == IF starts THEN 0 ELSE toggleCount
          passed == flick1 /\ StateDurationPassed(now, lastC1, dur1)
          count2 == count1 + 1
      IN
      /\ maxFlickersInSequence' = max1
      /\ IF ~passed
         THEN /\ isFlickering' = flick1
              /\ flickerCounter' = count1
              /\ lastFlickerTime' = lastT1
              /\ lastFlickerStateChangeTime' = lastC1
              /\ currentFlickerStateDuration' = dur1
              /\ toggleCount' = togg1
              /\ UNCHANGED <<nextFlickerInterval, spotlights, spotlightBeams>>
         ELSE IF SequenceFinished(count2, max1)
         THEN /\ isFlickering' = FALSE
              /\ flickerCounter' = count2
              /\ lastFlickerTime' = now
              /\ nextFlickerInterval' \in IntervalDraws
              /\ spotlights' = FullPowerSpotlights(spotlights)
              /\ spotlightBeams' = RestoredBeams(spotlightBeams)
              /\ lastFlickerStateChangeTime' = lastC1
              /\ currentFlickerStateDuration' = dur1
              /\ toggleCount' = togg1
         ELSE /\ isFlickering' = flick1
              /\ flickerCounter' = count2
              /\ lastFlickerTime' = lastT1
              /\ lastFlickerStateChangeTime' = now
              /\ toggleCount' = togg1 + 1
              /\ UNCHANGED nextFlickerInterval
              /\ IF count2 % 2 = 0
                 THEN /\ spotlights' = BrightSpotlights(spotlights)
                      /\ spotlightBeams' = RestoredBeams(spotlightBeams)
                      /\ IF spotlights = <<>>
                         THEN currentFlickerStateDuration' = dur1
                         ELSE currentFlickerStateDuration' \in {50, 149}
                 ELSE /\ spotlights' \in [DOMAIN spotlights -> {50, 299}]
                      /\ spotlightBeams' = [i \in DOMAIN spotlightBeams |-> [spotlightBeams[i] EXCEPT !.opacity = DimOpacity]]
                      /\ IF spotlights = <<>>
                         THEN currentFlickerStateDuration' = dur1
                         ELSE currentFlickerStateDuration' \in {20, 99}

\* Pointer positions handed to Submarine.updateMousePosition
SubMouseDraws == { <<1000, -1000>> }

\* Submarine.updateMousePosition
SubUpdateMousePosition(mx, my) ==
    /\ subFrames < SubMouseFrames
    /\ subMouseX' = mx
    /\ subMouseY' = my
    /\ UNCHANGED <<now, modelState, spotlights, spotlightBeams, lastFlickerTime,
                   nextFlickerInterval, isFlickering, flickerCounter,
                   lastFlickerStateChangeTime, currentFlickerStateDuration,
                   maxFlickersInSequence, toggleCount, attachedWhileFlickering,
                   gizmoPosition,
                   gizmoRotationY, subClockStart, subFrames, framePending>>
    /\ UNCHANGED <<oceanVars, camVars, pageVars>>

\* const gizmoTargetX = -12 + this.mouseX * 0.2
GizmoTarget(base, mouse) ==
    base + RoundDiv(mouse * 200, 10000)

\* gizmoGroup.position.x += (gizmoTargetX - gizmoGroup.position.x) * easingFactorCamera
GizmoEased(position, target) ==
    position + RoundDiv((target - position) * 50, 1000)

\* Submarine.update: the clock (a THREE.Clock starts on its first reading),
\* the parallax of the group, then updateSpotlights
Update ==
    LET started == IF subClockStart = <<>> THEN now ELSE subClockStart[1]
        elapsed == now - started
    IN  /\ framePending
        /\ framePending' = FALSE
        /\ subClockStart' = <<started>>
        /\ subFrames' = IF subFrames < SubMouseFrames THEN subFrames + 1
                                                      ELSE subFrames
        /\ gizmoPosition' =
              [x |-> GizmoEased(gizmoPosition.x, GizmoTarget(-1200, subMouseX)),
               y |-> GizmoEased(gizmoPosition.y, GizmoTarget(0, subMouseY))]
        /\ UpdateSpotlights(elapsed)
        /\ UNCHANGED <<now, modelState, subMouseX, subMouseY,
                       attachedWhileFlickering>>
    /\ UNCHANGED <<oceanVars, camVars, pageVars>>

(***************************************************************************)
(* OceanBackground (the class appended to services/README.md).             *)
(***************************************************************************)
\* Particles per layer in the model (10000, 7000 and 4000 in the code).
ParticleCount1 == 1
ParticleCount2 == 1
ParticleCount3 == 1
\* update() calls followed after construction.
MaxFrames == 2400
\* updateMousePosition is followed during the first MouseFrames frames.
MouseFrames == 2

\* One display frame: what clock.getElapsedTime() advances between updates.
FrameMs == 16

\* Mutant of Wrap1: the coordinate is put on the opposite bound.
Wrap1Opposite(p, rest, bound) ==
    IF Abs(p) > bound THEN (IF p > 0 THEN -bound ELSE bound) ELSE p

\* Mutant of Wrap1: the current coordinate is negated, not the rest one.
Wrap1Current(p, rest, bound) ==
    IF Abs(p) > bound THEN -p ELSE p

\* if (Math.abs(positions[i]) > 18) positions[i] = this.originalPositions[i] * -1
Wrap1(p, rest, bound) ==
    IF Abs(p) > bound THEN -rest ELSE p

\* One particle of updateParticleLayer1: its new <<x, y, z>> and <<r, g, b>>.
\* index is the particle's number from 0, t the elapsed time in ms.
Particle1(pos, rest, vel, mx, my, t, index) ==
    LET b  == 3 * index
        \* Repulsion logic
        dx == RoundDiv(mx * 5000 - pos[b + 1], 1000)
        dy == RoundDiv(my * 5000 - pos[b + 2], 1000)
        dz == RoundDiv(3000000 - pos[b + 3], 1000)
        distance == Sqrt(dx * dx + dy * dy + dz * dz)
        force == IF distance < 1200 THEN (1200 - distance) * 12 ELSE 0
        x1 == pos[b + 1] - RoundDiv(dx * force, 1000)
        y1 == pos[b + 2] - RoundDiv(dy * force, 1000)
        z1 == pos[b + 3] - RoundDiv(dz * force, 1000)
        \* Light interaction logic
        lx == RoundDiv(mx * 10000 - x1, 1000)
        ly == RoundDiv(my * 10000 - y1, 1000)
        lz == RoundDiv(5000000 - z1, 1000)
        lightDistance == Sqrt(lx * lx + ly * ly + lz * lz)
        f == 1000 - lightDistance \div 8
        lightIntensity ==
            IF lightDistance < 8000
            THEN RoundDiv(RoundDiv(f * f * f, 1000000) * 3, 2) ELSE 0
        \* Simple drift, jitter, damping to original position
        x2 == x1 + vel[index + 1].x + Sin(t \div 2 + index * 100)
        y2 == y1 + vel[index + 1].y + Cos((t * 6) \div 10 + index * 100)
        z2 == z1 + vel[index + 1].z
                 + RoundDiv(Sin((t * 7) \div 10 + index * 100), 2)
        x3 == x2 + RoundDiv((rest[b + 1] - x2) * 5, 1000)
        y3 == y2 + RoundDiv((rest[b + 2] - y2) * 5, 1000)
        z3 == z2 + RoundDiv((rest[b + 3] - z2) * 5, 1000)
    IN  [position |-> << Wrap1(x3, rest[b + 1], 18000000),
                         Wrap1(y3, rest[b + 2], 18000000),
                         Wrap1(z3, rest[b + 3], 10000000) >>,
         color |-> << 800 + RoundDiv(150 * lightIntensity, 1000),
                      900 - RoundDiv(50 * lightIntensity, 1000),
                      800 - RoundDiv(400 * lightIntensity, 1000) >>]

\* updateParticleLayer1 over particleCount particles
UpdateParticleLayer1(pos, rest, vel, mx, my, t, particleCount) ==
    [k \in 1..(3 * particleCount) |->
        Particle1(pos, rest, vel, mx, my, t, (k - 1) \div 3)
            .position[((k - 1) % 3) + 1]]

UpdateColors1(pos, rest, vel, mx, my, t, particleCount) ==
    [k \in 1..(3 * particleCount) |->
        Particle1(pos, rest, vel, mx, my, t, (k - 1) \div 3)
            .color[((k - 1) % 3) + 1]]

\* Mutant of Wrap2: no wraparound.
Wrap2Missing(y) ==
    y

\* if (positions2[i + 1] > 17) positions2[i + 1] = -17
Wrap2(y) ==
    IF y > 17000000 THEN -17000000 ELSE y

\* updateParticleLayer2: positions2[i + 1] += 0.005, then the wrap
UpdateParticleLayer2(pos, particleCount) ==
    [k \in 1..(3 * particleCount) |->
        IF (k - 1) % 3 = 1 THEN Wrap2(pos[k] + 5000) ELSE pos[k]]

\* Mutant of UpdateParticleLayer3: the drift on all three coordinates.
UpdateParticleLayer3Depth(pos, particleCount) ==
    [k \in 1..(3 * particleCount) |-> pos[k] + 3000]

\* updateParticleLayer3: x += 0.003, y += 0.004, y wraps to -20, x changes sign
UpdateParticleLayer3(pos, particleCount) ==
    [k \in 1..(3 * particleCount) |->
        IF (k - 1) % 3 = 0
        THEN IF Abs(pos[k] + 3000) > 20000000
             THEN -(pos[k] + 3000) ELSE pos[k] + 3000
        ELSE IF (k - 1) % 3 = 1
        THEN IF pos[k] + 4000 > 20000000 THEN -20000000 ELSE pos[k] + 4000
        ELSE pos[k]]

\* Mutant of PositionArrayLength: one float per particle.
PositionArrayLengthFlat(particleCount) ==
    particleCount

\* new Float32Array(particleCount * 3)
PositionArrayLength(particleCount) ==
    particleCount * 3

\* The flat array of the given length holding the triples of draws
Flat(triples, length) ==
    [k \in 1..length |-> triples[((k - 1) \div 3) + 1][((k - 1) % 3) + 1]]

\* setupLighting: the two cursor lights
OceanLightsInit ==
    /\ cursorPointLight = [x |-> 0, y |-> 0, intensity |-> 2500]
    /\ cursorAmbientLight = [x |-> 0, y |-> 0, intensity |-> 1200]

\* Pointer positions handed to updateMousePosition
MouseDraws == { <<0, 0>>, <<1000, -1000>> }

\* OceanBackground.updateMousePosition
OceanUpdateMousePosition(mx, my) ==
    /\ frames < MouseFrames
    /\ oceanMouseX' = mx
    /\ oceanMouseY' = my
    /\ UNCHANGED <<elapsedTime, frames, positions1, colors1, originalPositions,
                   velocities, positions2, positions3, cursorPointLight,
                   cursorAmbientLight>>
    /\ UNCHANGED <<subVars, camVars, pageVars>>

\* OceanBackground.update, on layers of the given particle counts
OceanUpdateBody(count1, count2, count3) ==
    /\ elapsedTime' = elapsedTime + FrameMs
    /\ frames' = frames + 1
    /\ cursorPointLight' = [x |-> oceanMouseX * 10000, y |-> oceanMouseY * 10000,
                            intensity |-> 2500]
    /\ cursorAmbientLight' = [x |-> oceanMouseX * 10000, y |-> oceanMouseY * 10000,
                              intensity |-> 1500]
    /\ positions1' = UpdateParticleLayer1(positions1, originalPositions, velocities,
                                          oceanMouseX, oceanMouseY,
                                          elapsedTime, count1)
    /\ colors1' = UpdateColors1(positions1, originalPositions, velocities,
                                oceanMouseX, oceanMouseY,
                                elapsedTime, count1)
    /\ positions2' = UpdateParticleLayer2(positions2, count2)
    /\ positions3' = UpdateParticleLayer3(positions3, count3)
    /\ UNCHANGED <<oceanMouseX, oceanMouseY, originalPositions, velocities>>
    /\ UNCHANGED <<subVars, camVars, pageVars>>

OceanUpdate ==
    /\ frames < MaxFrames
    /\ OceanUpdateBody(ParticleCount1, ParticleCount2, ParticleCount3)

OceanNext ==
    \/ \E m \in MouseDraws : OceanUpdateMousePosition(m[1], m[2])
    \/ OceanUpdate

(***************************************************************************)
(* OceanBackground.updateScrollDepth.  The scroll progress is in           *)
(* thousandths (0.5 -> 500); a colour channel is in thousandths of one     *)
(* step of its 0..255 scale (0x1f -> 31000); the fog density and the       *)
(* intensities of the ambient and the directional light are in millionths. *)
(***************************************************************************)
\* The scene is followed for this many updateScrollDepth calls.
MaxScrollCalls == 3

\* originalFogDensity = 0.08 and targetFogDensity = 0.15, in millionths
OriginalFogDensity == 80000
TargetFogDensity == 150000
\* originalFogColor = 0x1f3d38, targetFogColor = 0x0a1a18
OriginalFogColor == <<31000, 61000, 56000>>
\* Scroll progress values handed to updateScrollDepth
ScrollDraws == {0, 500, 1000}

\* Mutant of OriginalColor: the interpolation starts from the colour the
\* fog has now.
OriginalColorCurrent(current, original) == current

\* const originalColor = new THREE.Color(this.originalFogColor): a fresh
\* colour on every call, whatever the fog's colour is now
OriginalColor(current, original) == original

\* What a call of updateScrollDepth writes
ScrollOutputs ==
    <<fog, background, ambientLight, directionalLight,
      cursorPointLight.intensity, cursorAmbientLight.intensity>>

\* OceanBackground.updateScrollDepth
OceanUpdateScrollDepth(scrollProgress) ==
    LET from == OriginalColor(fog.color, OriginalFogColor)
        to == <<10000, 26000, 24000>>
        \* currentColor.lerpColors(originalFogColor, targetFogColor, scrollProgress)
        currentColor == [k \in 1..3 |->
                           from[k] + RoundDiv((to[k] - from[k]) * scrollProgress, 1000)]
    IN  /\ Len(scrollCalls) < MaxScrollCalls
        /\ scrollDepth' = scrollProgress
        /\ fog' = [color |-> currentColor,
                   density |-> OriginalFogDensity
                               + RoundDiv((TargetFogDensity - OriginalFogDensity)
                                          * scrollProgress, 1000)]
        /\ background' = currentColor
        /\ ambientLight' = 15 * (10000 - 7 * scrollProgress)
        /\ directionalLight' = 15 * (10000 - 8 * scrollProgress)
        /\ cursorPointLight' =
              [cursorPointLight EXCEPT
                 !.intensity = RoundDiv(25 * (10000 - 3 * scrollProgress), 100)]
        /\ cursorAmbientLight' =
              [cursorAmbientLight EXCEPT
                 !.intensity = RoundDiv(12 * (10000 - 3 * scrollProgress), 100)]
        /\ scrollCalls' = Append(scrollCalls, scrollProgress)
        /\ scrollResults' =
              IF scrollResults[scrollProgress] = <<>>
              THEN [scrollResults EXCEPT ![scrollProgress] = <<ScrollOutputs'>>]
              ELSE scrollResults
        /\ UNCHANGED <<oceanMouseX, oceanMouseY, elapsedTime, frames, positions1,
                       colors1, originalPositions, velocities, positions2,
                       positions3>>
        /\ UNCHANGED <<subVars, camVars, schedVars, timerVars, buildVars, kelpVars,
                   listVars, widgetVars>>

(***************************************************************************)
(* SceneManager: the registry of systems and the animation loop.  A system *)
(* is one of the actors of the page (each has an update function), an      *)
(* object without an update function ("plain") or a null entry.            *)
(***************************************************************************)
\* At most this many addSystem calls, start calls and animate executions.
MaxSystems == 4
MaxStarts == 1
\* start() calls followed where the page calls it more than once.
MaxLoopStarts == 2
MaxAnimates == 2

Actors == {"ocean", "submarine", "kelp"}
SystemDraws == Actors \cup {"plain", "null"}

\* this.systems.forEach(system => { if (...) system.update(); }), the calls
\* made, in order
RECURSIVE UpdateSystems(_, _)
UpdateSystems(list, log) ==
    IF list = <<>> THEN log
    ELSE UpdateSystems(Tail(list),
                       IF Head(list) # "null" /\ Head(list) \in Actors THEN Append(log, Head(list))
                                                ELSE log)

\* Mutant of AddSystem: a system already registered is not registered again.
AddSystemOnce(system) ==
    /\ Len(registered) < MaxSystems
    /\ systems' = IF \E i \in DOMAIN systems : systems[i] = system
                  THEN systems ELSE Append(systems, system)
    /\ registered' = Append(registered, system)
    /\ UNCHANGED <<rafPending, updateLog, disposed, animates>>
    /\ UNCHANGED <<subVars, oceanVars, camVars, scrollVars, timerVars, buildVars, kelpVars,
                   listVars, widgetVars>>

\* SceneManager.addSystem
AddSystem(system) ==
    /\ Len(registered) < MaxSystems
    /\ systems' = Append(systems, system)
    /\ registered' = Append(registered, system)
    /\ UNCHANGED <<rafPending, updateLog, disposed, animates>>
    /\ UNCHANGED <<subVars, oceanVars, camVars, scrollVars, timerVars, buildVars, kelpVars,
                   listVars, widgetVars>>

\* The body of SceneManager.animate after requestAnimationFrame: isInitialized
\* is true once the constructor has returned; lookAt and render write
\* nothing the model holds.
Animate ==
    /\ animates < MaxAnimates
    /\ updateLog' = UpdateSystems(systems, <<>>)
    /\ animates' = animates + 1
    /\ UNCHANGED <<systems, disposed, registered>>
    /\ UNCHANGED <<subVars, oceanVars, camVars, scrollVars, timerVars, buildVars, kelpVars,
                   listVars, widgetVars>>

\* SceneManager.start: animate() runs and requests its next frame
Start ==
    /\ rafPending' = rafPending + 1
    /\ Animate

\* a start() call of the scheduler specification
SchedStart ==
    /\ rafPending < MaxStarts
    /\ Start

\* a start() call where the page starts the loop more than once
LoopStart ==
    /\ rafPending < MaxLoopStarts
    /\ Start

\* A pending requestAnimationFrame callback runs animate(), which requests
\* the next frame before it updates the systems.
AnimationFrame ==
    /\ rafPending > 0
    /\ rafPending' = rafPending
    /\ Animate

\* OceanBackground.dispose, Submarine.dispose, Kelp.dispose: the actor's
\* geometries and materials are disposed and its objects removed from the
\* scene, and the Kelp empties kelpObjects; SceneManager.systems is not
\* touched.
Dispose(actor) ==
    /\ disposed' = disposed \cup {actor}
    /\ kelpObjects' = IF actor = "kelp" THEN <<>> ELSE kelpObjects
    /\ UNCHANGED <<systems, rafPending, updateLog, registered, animates>>
    /\ UNCHANGED <<kelpModelState, kelpFrames, kelpFirst>>
    /\ UNCHANGED <<subVars, oceanVars, camVars, scrollVars, timerVars, buildVars,
                   listVars, widgetVars>>

SchedNext ==
    \/ \E system \in SystemDraws : AddSystem(system)
    \/ SchedStart
    \/ AnimationFrame
    \/ \E actor \in Actors : Dispose(actor)

\* start() called any number of times
LoopNext ==
    \/ \E system \in SystemDraws : AddSystem(system)
    \/ LoopStart
    \/ AnimationFrame

(***************************************************************************)
(* Construction of the components.  A constructor call either gets its     *)
(* required input (the scene of OceanBackground, Submarine and Kelp; the   *)
(* targetElement, cardScene and cardCamera of RotatableCard; a selector    *)
(* that matches an element for ListManager) or does not.  It ends with an  *)
(* active component, with an inactive one, or by throwing.                 *)
(***************************************************************************)
\* ListManager.render() calls are followed up to this many.
MaxRenders == 2

Classes == {"OceanBackground", "Submarine", "Kelp", "RotatableCard", "ListManager"}

\* How a constructor call ends.  RotatableCard.init and the ListManager
\* constructor log and return; setupFog of OceanBackground and init of
\* Submarine and Kelp dereference this.scene, a TypeError when it is
\* undefined.
Outcome(class, given) ==
    IF given THEN "active"
    ELSE IF class \in {"RotatableCard", "ListManager"} THEN "inactive" ELSE "thrown"

\* history: one more render() call, counted up to MaxRenders
Rendered == IF renders < MaxRenders THEN renders + 1 ELSE renders

\* new OceanBackground(scene, camera), new Submarine(scene, camera),
\* new Kelp(scene), new RotatableCard(options), new ListManager(selector, ...)
Construct(class, given) ==
    /\ constructed' = [constructed EXCEPT ![class] = Outcome(class, given)]
    /\ diagnostics' = IF Outcome(class, given) = "inactive"
                      THEN diagnostics \cup {class} ELSE diagnostics
    /\ gizmoFadeStartTime' = IF class = "RotatableCard" THEN "null"
                                                        ELSE gizmoFadeStartTime
    /\ gizmoFadeProgress' = IF class = "RotatableCard" THEN 0 ELSE gizmoFadeProgress
    /\ gizmoOpacity' = IF class = "RotatableCard" THEN 0 ELSE gizmoOpacity
    /\ items' = IF class = "ListManager" THEN <<>> ELSE items
    /\ containerItems' = IF class = "ListManager" THEN <<>> ELSE containerItems
    /\ renders' = IF class = "ListManager" /\ given THEN Rendered ELSE renders
    /\ UNCHANGED <<subVars, oceanVars, camVars, scrollVars, schedVars, timerVars,
                   kelpVars, widgetVars>>

\* fadeInDuration: options.fadeInDuration || 1000
FadeInDuration == 1000

\* RotatableCard.update on the card last constructed.  The first call sets
\* gizmoFadeStartTime and sees no time elapsed; the clock does not go back.
CardUpdate(elapsed) ==
    /\ constructed["RotatableCard"] \in {"active", "inactive"}
    /\ gizmoFadeProgress < 1000
    /\ RoundDiv(elapsed * 1000, FadeInDuration) >= gizmoFadeProgress
    /\ gizmoFadeStartTime = "null" => elapsed = 0
    /\ gizmoFadeStartTime' = "set"
    /\ gizmoFadeProgress' = IF elapsed < FadeInDuration
                            THEN RoundDiv(elapsed * 1000, FadeInDuration)
                            ELSE 1000
    /\ gizmoOpacity' = IF constructed["RotatableCard"] = "active"
                       THEN gizmoFadeProgress' ELSE gizmoOpacity
    /\ UNCHANGED <<constructed, diagnostics, renders>>
    /\ UNCHANGED <<subVars, oceanVars, camVars, scrollVars, schedVars, timerVars,
                   kelpVars, listVars, widgetVars>>

(***************************************************************************)
(* ListManager.  A title and an id are strings, modelled as sequences of   *)
(* one-character strings.                                                  *)
(***************************************************************************)
\* The list is followed up to this many items.
MaxItems == 3

\* an argument or property left out of a call; a given one v is <<v>>
Undefined == <<>>

IsSpace(c) == c = " "

\* .replace(/[^a-z0-9\s]/g, '')
RECURSIVE Stripped(_)
Stripped(str) ==
    IF str = <<>> THEN <<>>
    ELSE IF \/ Head(str) \in {"a", "b", "u", "n", "t", "i", "l", "e", "d", "0",
                               "1", "2", "3", "4", "5", "6", "7", "8", "9"}
            \/ IsSpace(Head(str))
         THEN <<Head(str)>> \o Stripped(Tail(str))
         ELSE Stripped(Tail(str))

\* .replace(/\s+/g, '-'): every run of white space becomes one hyphen
RECURSIVE Hyphenated(_)
Hyphenated(str) ==
    IF str = <<>> THEN <<>>
    ELSE IF IsSpace(Head(str))
         THEN IF Len(str) > 1 /\ IsSpace(str[2])
              THEN Hyphenated(Tail(str))
              ELSE <<"-">> \o Hyphenated(Tail(str))
         ELSE <<Head(str)>> \o Hyphenated(Tail(str))

\* the decimal digits of a counter, as `${counter}` writes them
RECURSIVE Decimal(_)
Decimal(n) ==
    LET digit == <<"0", "1", "2", "3", "4", "5", "6", "7", "8", "9">>[(n % 10) + 1]
    IN  IF n < 10 THEN <<digit>> ELSE Decimal(n \div 10) \o <<digit>>

\* the while loop of generateId: `${baseId}-${counter}` until no item has it
RECURSIVE UniqueId(_, _, _, _)
UniqueId(list, baseId, uniqueId, counter) ==
    IF uniqueId \in {list[i].id : i \in DOMAIN list}
    THEN UniqueId(list, baseId, baseId \o <<"-">> \o Decimal(counter), counter + 1)
    ELSE uniqueId

\* ListManager.generateId
GenerateId(list, title) ==
    LET lower == [k \in DOMAIN title |->
                     IF title[k] = "A" THEN "a"
                     ELSE IF title[k] = "B" THEN "b" ELSE title[k]]
        hyphenated == Hyphenated(Stripped(lower))
        \* .substring(0, 50)
        baseId == SubSeq(hyphenated, 1,
                         IF Len(hyphenated) < 50 THEN Len(hyphenated) ELSE 50)
    IN  UniqueId(list, baseId, baseId, 1)

\* render(): without a container nothing; with one, a row for every item
RenderedItems(list) ==
    IF constructed["ListManager"] = "active"
    THEN [i \in DOMAIN list |-> list[i].id]
    ELSE containerItems

\* ListManager.render on the list last constructed
ListRender ==
    /\ constructed["ListManager"] \in {"active", "inactive"}
    /\ renders < MaxRenders
    /\ renders' = Rendered
    /\ containerItems' = RenderedItems(items)
    /\ UNCHANGED <<constructed, diagnostics, gizmoFadeStartTime,
                   gizmoFadeProgress, gizmoOpacity, items>>
    /\ UNCHANGED <<subVars, oceanVars, camVars, scrollVars, schedVars, timerVars,
                   kelpVars, widgetVars>>

\* ListManager.addListElement
AddListElement(title, id) ==
    /\ constructed["ListManager"] \in {"active", "inactive"}
    /\ Len(items) < MaxItems
    \* const newItem = { id: itemData.id || this.generateId(itemData.title ||
    \* 'untitled'), ..., ...itemData }: an id in itemData overwrites the generated one
    /\ LET newId == IF id = Undefined
                    THEN GenerateId(items, IF title = <<>>
                                           THEN <<"u", "n", "t", "i", "t", "l", "e", "d">>
                                           ELSE title)
                    ELSE id[1]
       IN  items' = Append(items, [id |-> newId, title |-> title])
    /\ containerItems' = RenderedItems(items')
    /\ renders' = Rendered
    /\ UNCHANGED <<constructed, diagnostics, gizmoFadeStartTime,
                   gizmoFadeProgress, gizmoOpacity>>
    /\ UNCHANGED <<subVars, oceanVars, camVars, scrollVars, schedVars, timerVars,
                   kelpVars, widgetVars>>

\* items.findIndex(p => p.id === itemId), 0 when there is none
RECURSIVE FindIndex(_, _, _)
FindIndex(list, itemId, k) ==
    IF k > Len(list) THEN 0
    ELSE IF list[k].id = itemId THEN k ELSE FindIndex(list, itemId, k + 1)

\* ListManager.removeListElement: an id no item has leaves the list as it is
RemoveListElement(itemId) ==
    LET index == FindIndex(items, itemId, 1)
    IN  /\ constructed["ListManager"] \in {"active", "inactive"}
        /\ index # 0
        /\ items' = SubSeq(items, 1, index - 1) \o SubSeq(items, index + 1, Len(items))
        /\ containerItems' = RenderedItems(items')
        /\ renders' = Rendered
        /\ UNCHANGED <<constructed, diagnostics, gizmoFadeStartTime,
                       gizmoFadeProgress, gizmoOpacity>>
        /\ UNCHANGED <<subVars, oceanVars, camVars, scrollVars, schedVars,
                       timerVars, kelpVars, widgetVars>>

ListNext ==
    \/ \E given \in BOOLEAN : Construct("ListManager", given)
    \/ \E title \in { <<"A">>, <<"a">>, <<"a", " ", " ", "1">>, <<"a", "!">>, <<>> }, id \in { Undefined, << <<"a">> >> } : AddListElement(title, id)
    \/ \E itemId \in { <<"a">>, <<"a", "-", "1">>, <<"b">> } : RemoveListElement(itemId)
    \/ ListRender

BuildNext ==
    \/ \E class \in Classes, given \in BOOLEAN : Construct(class, given)
    \/ \E elapsed \in {0, 500, 1000} : CardUpdate(elapsed)
    \/ ListRender

(***************************************************************************)
(* Kelp.  Angles are in thousandths of a radian, sway intensities and sway *)
(* speeds in thousandths; performance.now() is in ms and is an input of    *)
(* update().                                                               *)
(***************************************************************************)
\* kelpCount = 150 in the code; instances and update() calls followed
KelpCount == 2
KelpFrames == 3

\* readings of performance.now()
KelpTimeDraws == {0, 10000, 25000}
\* rotation.x and rotation.z of the loaded model, which every clone copies
KelpBaseDraws == {0, 100}
\* 0.05 + Math.random() * 0.03
KelpIntensityDraws == {50, 79}
\* the userData createKelpInstances can store
KelpUserData ==
    [baseRotationX : KelpBaseDraws, baseRotationZ : KelpBaseDraws,
     animationOffset : {0, Pi}, swayIntensityX : KelpIntensityDraws,
     swayIntensityZ : KelpIntensityDraws, swaySpeed : {800, 1199}]

\* const time = performance.now() * 0.0001, in thousandths
KelpTime(performanceNow) == performanceNow \div 10

\* Mutant of SwayedX: the sway is added to the rotation the instance has.
SwayedXAccumulated(kelp, time) ==
    kelp.rotation.x
      + RoundDiv(Sin(RoundDiv(time * kelp.userData.swaySpeed, 1000)
                     + kelp.userData.animationOffset)
                 * kelp.userData.swayIntensityX, 1000)

\* userData.baseRotationX + Math.sin(time * swaySpeed + animationOffset) * swayIntensityX
SwayedX(kelp, time) ==
    kelp.userData.baseRotationX
      + RoundDiv(Sin(RoundDiv(time * kelp.userData.swaySpeed, 1000)
                     + kelp.userData.animationOffset)
                 * kelp.userData.swayIntensityX, 1000)

\* loader.load success callback: onModelLoaded -> createKelpInstances
KelpOnModelLoaded ==
    /\ kelpModelState = "loading"
    /\ kelpModelState' = "loaded"
    /\ \E base \in KelpBaseDraws, data \in [1..KelpCount -> KelpUserData] :
          /\ \A i \in 1..KelpCount :
                /\ data[i].baseRotationX = base
                /\ data[i].baseRotationZ = base
          /\ kelpObjects' =
                kelpObjects \o
                [i \in 1..KelpCount |->
                    [userData |-> data[i],
                     rotation |-> [x |-> base, y |-> Pi, z |-> base]]]
    /\ UNCHANGED <<kelpFrames, kelpFirst>>
    /\ UNCHANGED <<subVars, oceanVars, camVars, scrollVars, schedVars, timerVars,
                   buildVars, listVars, widgetVars>>

\* loader.load error callback: only logs
KelpOnModelError ==
    /\ kelpModelState = "loading"
    /\ kelpModelState' = "failed"
    /\ UNCHANGED <<kelpObjects, kelpFrames, kelpFirst>>
    /\ UNCHANGED <<subVars, oceanVars, camVars, scrollVars, schedVars, timerVars,
                   buildVars, listVars, widgetVars>>

\* the rotations of the instances, what update() writes
KelpRotations(objects) == [i \in DOMAIN objects |-> objects[i].rotation]

\* Kelp.update
KelpUpdate(performanceNow) ==
    /\ kelpFrames < KelpFrames
    /\ kelpFrames' = kelpFrames + 1
    /\ kelpObjects' =
          [i \in DOMAIN kelpObjects |->
              [kelpObjects[i] EXCEPT
                 !.rotation.x = SwayedX(kelpObjects[i], KelpTime(performanceNow)),
                 \* userData.baseRotationZ + Math.cos(time * swaySpeed * 0.7
                 \*   + animationOffset) * swayIntensityZ
                 !.rotation.z =
                    kelpObjects[i].userData.baseRotationZ
                      + RoundDiv(Cos(RoundDiv(KelpTime(performanceNow)
                                                * kelpObjects[i].userData.swaySpeed * 7,
                                              10000)
                                     + kelpObjects[i].userData.animationOffset)
                                 * kelpObjects[i].userData.swayIntensityZ, 1000)]]
    /\ kelpFirst' = IF kelpFirst = <<>>
                    THEN <<performanceNow, KelpRotations(kelpObjects')>>
                    ELSE kelpFirst
    /\ UNCHANGED kelpModelState
    /\ UNCHANGED <<subVars, oceanVars, camVars, scrollVars, schedVars, timerVars,
                   buildVars, listVars, widgetVars>>

KelpNext ==
    \/ KelpOnModelLoaded
    \/ KelpOnModelError
    \/ \E t \in KelpTimeDraws : KelpUpdate(t)

(***************************************************************************)
(* WebsitePreview (unnamed/part_002), constructed with a url and an        *)
(* onError callback.  A url is the number of the updateUrl call that set   *)
(* it, 1 for the url of the constructor.  Every assignment to iframe.src   *)
(* starts a navigation, which ends the one before and fires one load or    *)
(* one error event; the timer of createIframe runs at any moment relative  *)
(* to these events.                                                        *)
(***************************************************************************)
\* updateUrl calls followed plus one.
MaxUrls == 3

\* the iframe's load listener
IframeLoad ==
    /\ navigation = "inflight"
    /\ navigation' = "settled"
    /\ isLoaded' = TRUE
    /\ UNCHANGED <<previewUrl, hasError, previewTimeout, onErrorCalls,
                   timeoutReports>>
    /\ UNCHANGED <<subVars, oceanVars, camVars, scrollVars, schedVars, timerVars,
                   buildVars, kelpVars, listVars, panelVars, frameVars>>

\* the iframe's error listener
IframeError ==
    /\ navigation = "inflight"
    /\ navigation' = "settled"
    /\ hasError' = TRUE
    /\ onErrorCalls' = [onErrorCalls EXCEPT ![previewUrl] = @ + 1]
    /\ UNCHANGED <<previewUrl, isLoaded, previewTimeout, timeoutReports>>
    /\ UNCHANGED <<subVars, oceanVars, camVars, scrollVars, schedVars, timerVars,
                   buildVars, kelpVars, listVars, panelVars, frameVars>>

\* the setTimeout callback of createIframe, 10 s after construction
PreviewTimeout ==
    /\ previewTimeout # 0
    /\ previewTimeout' = 0
    /\ IF ~isLoaded /\ ~hasError
       THEN /\ hasError' = TRUE
            /\ onErrorCalls' = [onErrorCalls EXCEPT ![previewUrl] = @ + 1]
            /\ timeoutReports' = timeoutReports \cup {<<previewTimeout, previewUrl>>}
       ELSE UNCHANGED <<hasError, onErrorCalls, timeoutReports>>
    /\ UNCHANGED <<previewUrl, isLoaded, navigation>>
    /\ UNCHANGED <<subVars, oceanVars, camVars, scrollVars, schedVars, timerVars,
                   buildVars, kelpVars, listVars, panelVars, frameVars>>

\* WebsitePreview.updateUrl: no timer is armed for the new url
UpdateUrl ==
    /\ previewUrl < MaxUrls
    /\ previewUrl' = previewUrl + 1
    /\ isLoaded' = FALSE
    /\ hasError' = FALSE
    /\ navigation' = "inflight"
    /\ UNCHANGED <<previewTimeout, onErrorCalls, timeoutReports>>
    /\ UNCHANGED <<subVars, oceanVars, camVars, scrollVars, schedVars, timerVars,
                   buildVars, kelpVars, listVars, panelVars, frameVars>>

PreviewNext ==
    \/ IframeLoad
    \/ IframeError
    \/ PreviewTimeout
    \/ UpdateUrl

(***************************************************************************)
(* FrameDecorator, constructed with its default options (enabled, frame    *)
(* type 'none').  A decorator is written as the frame type it was created  *)
(* for; decoratedElements is the Map from element to decorator.            *)
(***************************************************************************)
\* The DOM elements handed to the decorator
Elements == {1, 2}

\* The frame types of createDecorator; "other" is any string it does not know
FrameTypes == {"none", "editableCard", "neonGlow", "retro", "minimal", "other"}

\* createDecorator: null for 'none' and for a type it does not know, and for
\* 'editableCard' when window.EditableCard is not available or its
\* constructor throws
CreateDecorator(type, available) ==
    IF type \in {"neonGlow", "retro", "minimal"} THEN type
    ELSE IF type = "editableCard" /\ available THEN type
    ELSE "null"

\* this.decoratedElements.set(element, decorator), if (decorator)
MapSet(map, element, decorator) ==
    IF decorator = "null" THEN map
    ELSE [e \in DOMAIN map \cup {element} |->
             IF e = element THEN decorator ELSE map[e]]

\* decorate(element, customOptions): frameOptions = { ...this.options,
\* ...customOptions }
Decorate(element, customType, available) ==
    LET type == IF customType = Undefined THEN frameType ELSE customType[1]
    IN  /\ decoratedElements' =
              MapSet(decoratedElements, element, CreateDecorator(type, available))
        /\ lastDestroyed' = {}
        /\ UNCHANGED frameType
        /\ UNCHANGED <<subVars, oceanVars, camVars, scrollVars, schedVars,
                       timerVars, buildVars, kelpVars, listVars, previewVars,
                       panelVars>>

\* undecorate(element)
Undecorate(element) ==
    /\ lastDestroyed' = {element} \cap DOMAIN decoratedElements
    /\ decoratedElements' = [e \in DOMAIN decoratedElements \ {element} |-> decoratedElements[e]]
    /\ UNCHANGED frameType
    /\ UNCHANGED <<subVars, oceanVars, camVars, scrollVars, schedVars, timerVars,
                   buildVars, kelpVars, listVars, previewVars, panelVars>>

\* elements.forEach(element => this.decorate(element)) from the empty map
RECURSIVE Redecorated(_, _, _, _)
Redecorated(map, elements, type, available) ==
    IF elements = {} THEN map
    ELSE LET e == CHOOSE x \in elements : \A y \in elements : x <= y
         IN  Redecorated(MapSet(map, e, CreateDecorator(type, available)),
                         elements \ {e}, type, available)

\* switchFrameType(newFrameType)
SwitchFrameType(newFrameType, available) ==
    LET elements == DOMAIN decoratedElements
    IN  /\ lastDestroyed' = elements
        /\ frameType' = newFrameType
        /\ decoratedElements' = Redecorated(<<>>, elements, newFrameType, available)
        /\ UNCHANGED <<subVars, oceanVars, camVars, scrollVars, schedVars,
                       timerVars, buildVars, kelpVars, listVars, previewVars,
                       panelVars>>

FrameNext ==
    \/ \E element \in Elements, available \in BOOLEAN,
          customType \in {Undefined} \cup {<<t>> : t \in FrameTypes} :
          Decorate(element, customType, available)
    \/ \E element \in Elements : Undecorate(element)
    \/ \E newFrameType \in FrameTypes, available \in BOOLEAN :
          SwitchFrameType(newFrameType, available)

(***************************************************************************)
(* ColorConfigPanel (unnamed/part_005, the version whose show() awaits     *)
(* createPanel).  An element is the number of the createPanel call that    *)
(* made it.  A show() call that passed its isVisible test is suspended at  *)
(* the await until the fetch of createPanel answers; other calls run in    *)
(* between.                                                                *)
(***************************************************************************)
\* show() calls suspended at a time, timers of resetColors pending at a time
\* and elements created that are followed.
MaxShows == 2
MaxShowTimers == 1
MaxPanels == 4

\* show() up to its await: if (this.isVisible) return; then createPanel is
\* called and the call is suspended
ShowBegin ==
    /\ ~isVisible
    /\ showsAwaiting < MaxShows
    /\ showsAwaiting + panelsCreated < MaxPanels
    /\ showsAwaiting' = showsAwaiting + 1
    /\ UNCHANGED <<panel, isVisible, attachedPanels, panelsCreated>>

\* show() from its await on: this.panel = the new element,
\* document.body.appendChild(this.panel), this.isVisible = true
ShowResume ==
    /\ lastCall' = "createPanel"
    /\ showsAwaiting > 0
    /\ showsAwaiting' = showsAwaiting - 1
    /\ panelsCreated' = panelsCreated + 1
    /\ panel' = panelsCreated + 1
    /\ attachedPanels' = attachedPanels \cup {panelsCreated + 1}
    /\ isVisible' = TRUE
    /\ UNCHANGED showTimers
    /\ UNCHANGED <<subVars, oceanVars, camVars, scrollVars, schedVars, timerVars,
                   buildVars, kelpVars, listVars, previewVars, frameVars>>

\* hide() past its test: if (!this.isVisible || !this.panel) return
HideBody ==
    /\ isVisible /\ panel # 0
    /\ attachedPanels' = attachedPanels \ {panel}
    /\ panel' = 0
    /\ isVisible' = FALSE
    /\ UNCHANGED <<showsAwaiting, panelsCreated>>

\* window.showColorConfig(): show()
Show ==
    /\ lastCall' = "show"
    /\ ShowBegin
    /\ UNCHANGED showTimers
    /\ UNCHANGED <<subVars, oceanVars, camVars, scrollVars, schedVars, timerVars,
                   buildVars, kelpVars, listVars, previewVars, frameVars>>

\* window.hideColorConfig(): hide()
Hide ==
    /\ lastCall' = "hide"
    /\ HideBody
    /\ UNCHANGED showTimers
    /\ UNCHANGED <<subVars, oceanVars, camVars, scrollVars, schedVars, timerVars,
                   buildVars, kelpVars, listVars, previewVars, frameVars>>

\* toggle(): hide() if visible, show() otherwise
Toggle ==
    /\ lastCall' = "toggle"
    /\ IF isVisible THEN HideBody ELSE ShowBegin
    /\ UNCHANGED showTimers
    /\ UNCHANGED <<subVars, oceanVars, camVars, scrollVars, schedVars, timerVars,
                   buildVars, kelpVars, listVars, previewVars, frameVars>>

\* resetColors(), its part on the panel: if (this.isVisible) { this.hide();
\* setTimeout(async () => await this.show(), 100) }
ResetColors ==
    /\ lastCall' = "resetColors"
    /\ isVisible
    /\ showTimers < MaxShowTimers
    /\ HideBody
    /\ showTimers' = showTimers + 1
    /\ UNCHANGED <<subVars, oceanVars, camVars, scrollVars, schedVars, timerVars,
                   buildVars, kelpVars, listVars, previewVars, frameVars>>

\* the timer of resetColors runs show(): nothing if the panel is visible by
\* then
ShowTimer ==
    /\ lastCall' = "setTimeout"
    /\ showTimers > 0
    /\ showTimers' = showTimers - 1
    /\ IF isVisible
       THEN UNCHANGED <<panel, isVisible, attachedPanels, showsAwaiting,
                        panelsCreated>>
       ELSE ShowBegin
    /\ UNCHANGED <<subVars, oceanVars, camVars, scrollVars, schedVars, timerVars,
                   buildVars, kelpVars, listVars, previewVars, frameVars>>

PanelNext ==
    \/ Show
    \/ ShowResume
    \/ Hide
    \/ Toggle
    \/ ResetColors
    \/ ShowTimer

(***************************************************************************)
(* CameraMovement (the first class of unnamed/part_003, the one with       *)
(* baseCameraPositions).  Camera coordinates are in hundredths of a unit,  *)
(* which is the resolution of the arithmetic in this part of the model:    *)
(* a sum whose exact value lies between two representable values is        *)
(* rounded to the nearest, as the floating-point addition of the code is.  *)
(***************************************************************************)
\* The cameras of SceneManager.setupCameras: 1 is camera, 2 is cardCamera.
CameraIds == {1, 2}
\* addCamera, pointer move and updateCameraBasePosition calls followed.
MaxCameras == 1
MaxMoves == 1
\* The idle timer is followed for this many pointer moves and until this
\* time of the last move, the clock advancing by these steps.
MaxPointerMoves == 3
PointerHorizon == 200
PointerDeltas == {50, 100}
MaxBaseUpdates == 1
\* addCamera calls followed where the base positions of two cameras matter.
MaxBaseCameras == 2
\* window.innerWidth and window.innerHeight
ViewportWidth == 1000
ViewportHeight == 500

\* this.easingFactor = 0.05
EasingFactor == 50

\* clientX, clientY of the pointer events
ClientDraws == { <<0, 0>>, <<ViewportWidth, ViewportHeight \div 2>> }
\* parallaxIntensity handed to addCamera (0.5 is the default)
IntensityDraws == {500}
\* x, y, z handed to updateCameraBasePosition
BaseDraws == { << <<100>>, Undefined, <<300>> >>,
               << Undefined, <<-100>>, Undefined >> }

\* CameraMovement constructor, SceneManager.setupCameras
CamInit ==
    /\ mouseX = 0
    /\ mouseY = 0
    /\ cursorX = 0
    /\ cursorY = 0
    /\ isMoving = FALSE
    /\ cursorTimeout = 0
    /\ cursorLightOpacity = "unset"
    /\ cameras = <<>>
    /\ baseCameraPositions = <<>>
    /\ cameraPosition = [c \in CameraIds |->
                            [x |-> 0, y |-> 0, z |-> IF c = 1 THEN 500 ELSE 400]]
    /\ moves = 0
    /\ baseUpdates = 0
    /\ camNow = 0
    /\ timers = {}
    /\ lastMoveTime = 0

\* setTimeout(..., 100)
IdleDelay == 100

\* Mutant of ClearTimeout: the previous timer is left pending.
ClearTimeoutNone(pending, handle) == pending

\* clearTimeout(this.cursorTimeout): the timer with that handle, if it is
\* still pending, is cancelled
ClearTimeout(pending, handle) == {t \in pending : t.id # handle}

\* handleMove, the mousemove / touchmove listener; the new timer's handle is
\* one the page has not handed out before
HandleMove(clientX, clientY) ==
    /\ moves' = moves + 1
    /\ cursorX' = clientX
    /\ cursorY' = clientY
    /\ mouseX' = RoundDiv(clientX * 2000, ViewportWidth) - 1000
    /\ mouseY' = -RoundDiv(clientY * 2000, ViewportHeight) + 1000
    /\ cursorLightOpacity' = "1"
    /\ isMoving' = TRUE
    /\ cursorTimeout' = moves + 1
    /\ timers' = ClearTimeout(timers, cursorTimeout)
                     \cup {[id |-> moves + 1, due |-> camNow + IdleDelay]}
    /\ lastMoveTime' = camNow
    /\ UNCHANGED <<cameras, baseCameraPositions, cameraPosition, baseUpdates,
                   camNow>>
    /\ UNCHANGED <<subVars, oceanVars, scrollVars, schedVars, buildVars, kelpVars,
                   listVars, widgetVars>>

\* the setTimeout callback of handleMove: a pending timer runs once its
\* delay has passed
IdleTimeout ==
    /\ \E t \in timers :
          /\ t.due <= camNow
          /\ timers' = timers \ {t}
    /\ isMoving' = FALSE
    /\ UNCHANGED <<mouseX, mouseY, cursorX, cursorY, cursorTimeout,
                   cursorLightOpacity, cameras, baseCameraPositions,
                   cameraPosition, moves, baseUpdates, camNow, lastMoveTime>>
    /\ UNCHANGED <<subVars, oceanVars, scrollVars, schedVars, buildVars, kelpVars,
                   listVars, widgetVars>>

\* The clock of the timers advances; past PointerHorizon only to let a
\* pending timer come due.
CamTick(d) ==
    /\ \/ camNow + d <= PointerHorizon
       \/ \E t \in timers : t.due > camNow
    /\ camNow' = camNow + d
    /\ UNCHANGED <<timers, lastMoveTime>>
    /\ UNCHANGED <<subVars, oceanVars, camVars, scrollVars, schedVars, buildVars, kelpVars,
                   listVars, widgetVars>>

\* a pointer move of the camera specifications
CamMove(clientX, clientY) ==
    /\ moves < MaxMoves
    /\ HandleMove(clientX, clientY)

\* a pointer move of the pointer specifications
PointerMove(clientX, clientY) ==
    /\ moves < MaxPointerMoves
    /\ HandleMove(clientX, clientY)

\* addCamera(camera, parallaxIntensity)
AddCamera(c, intensity) ==
    /\ cameras' = Append(cameras, [camera |-> c, parallaxIntensity |-> intensity])
    /\ baseCameraPositions' =
          [k \in DOMAIN baseCameraPositions \cup {c} |->
              IF k = c THEN cameraPosition[c] ELSE baseCameraPositions[k]]
    /\ UNCHANGED <<mouseX, mouseY, cursorX, cursorY, isMoving, cursorTimeout,
                   cursorLightOpacity, cameraPosition, moves, baseUpdates>>
    /\ UNCHANGED <<subVars, oceanVars, pageVars>>

\* an addCamera call of the camera specifications
CamAddCamera(c, intensity) ==
    /\ Len(cameras) < MaxCameras
    /\ AddCamera(c, intensity)

\* an addCamera call of the base position specification
BaseAddCamera(c, intensity) ==
    /\ Len(cameras) < MaxBaseCameras
    /\ AddCamera(c, intensity)

\* Mutant of Overwritten: the argument is stored also when it is undefined
\* (0 stands for the undefined then stored).
OverwrittenAlways(old, arg) == IF arg = Undefined THEN 0 ELSE arg[1]

\* if (x !== undefined) basePos.x = x
Overwritten(old, arg) == IF arg = Undefined THEN old ELSE arg[1]

\* updateCameraBasePosition(camera, x, y, z)
UpdateCameraBasePosition(c, x, y, z) ==
    /\ baseUpdates < MaxBaseUpdates
    /\ baseUpdates' = baseUpdates + 1
    /\ baseCameraPositions' =
          IF c \in DOMAIN baseCameraPositions
          THEN [baseCameraPositions EXCEPT
                   ![c] = [x |-> Overwritten(@.x, x),
                           y |-> Overwritten(@.y, y),
                           z |-> Overwritten(@.z, z)]]
          ELSE baseCameraPositions
    /\ UNCHANGED <<mouseX, mouseY, cursorX, cursorY, isMoving, cursorTimeout,
                   cursorLightOpacity, cameras, cameraPosition, moves>>
    /\ UNCHANGED <<subVars, oceanVars, pageVars>>

\* const targetX = basePos.x + (this.mouseX * parallaxIntensity)
Target(base, mouse, parallaxIntensity) ==
    base + RoundDiv(mouse * parallaxIntensity, 10000)

\* Mutant of Eased: the difference taken the wrong way round.
EasedAway(position, target) ==
    position + RoundDiv((position - target) * EasingFactor, 1000)

\* camera.position.x += (targetX - camera.position.x) * this.easingFactor
Eased(position, target) ==
    position + RoundDiv((target - position) * EasingFactor, 1000)

\* Mutant of UpdatedZ: z eased towards the base z like x and y.
UpdatedZEased(z, baseZ) ==
    Eased(z, baseZ)

\* "Don't modify Z position to preserve scroll-based depth changes"
UpdatedZ(z, baseZ) ==
    z

\* updateCameras: the entries of cameras in order, from entry k on
RECURSIVE UpdateCameras(_, _)
UpdateCameras(k, positions) ==
    IF k > Len(cameras) THEN positions
    ELSE LET c == cameras[k].camera
         IN  UpdateCameras(k + 1,
                IF c \in DOMAIN baseCameraPositions
                THEN [positions EXCEPT
                         ![c] = [x |-> Eased(@.x, Target(baseCameraPositions[c].x, mouseX,
                                                         cameras[k].parallaxIntensity)),
                                 y |-> Eased(@.y, Target(baseCameraPositions[c].y, mouseY,
                                                         cameras[k].parallaxIntensity)),
                                 z |-> UpdatedZ(@.z, baseCameraPositions[c].z)]]
                ELSE positions)

\* CameraMovement.update
CameraUpdate ==
    /\ cameraPosition' = UpdateCameras(1, cameraPosition)
    /\ UNCHANGED <<mouseX, mouseY, cursorX, cursorY, isMoving, cursorTimeout,
                   cursorLightOpacity, cameras, baseCameraPositions, moves,
                   baseUpdates>>
    /\ UNCHANGED <<subVars, oceanVars, pageVars>>

\* the parts of the page the other specifications leave as constructed
PageInit ==
    \* setupFog and the ambient and directional light of setupLighting
    /\ scrollDepth = 0
    /\ fog = [color |-> OriginalFogColor, density |-> OriginalFogDensity]
    /\ background = OriginalFogColor
    /\ ambientLight = 150000
    /\ directionalLight = 150000
    /\ scrollCalls = <<>>
    /\ scrollResults = [p \in ScrollDraws |-> <<>>]
    \* SceneManager constructor; the actors are constructed and not disposed
    /\ systems = <<>>
    /\ rafPending = 0
    /\ updateLog = <<>>
    /\ disposed = {}
    /\ registered = <<>>
    /\ animates = 0
    \* the page as loaded: the three actors constructed with their scene
    /\ constructed = [c \in Classes |->
                        IF c \in {"RotatableCard", "ListManager"} THEN "none"
                                                                  ELSE "active"]
    /\ diagnostics = {}
    /\ gizmoFadeStartTime = "null"
    /\ gizmoFadeProgress = 0
    /\ gizmoOpacity = 0
    /\ renders = 0
    /\ items = <<>>
    /\ containerItems = <<>>
    \* Kelp constructor: the model is loading
    /\ kelpModelState = "loading"
    /\ kelpObjects = <<>>
    /\ kelpFrames = 0
    /\ kelpFirst = <<>>
    \* constructor -> init -> render -> createIframe: the flags, the timer armed
    \* and iframe.src set
    /\ previewUrl = 1
    /\ isLoaded = FALSE
    /\ hasError = FALSE
    /\ previewTimeout = 1
    /\ navigation = "inflight"
    /\ onErrorCalls = [u \in 1..MaxUrls |-> 0]
    /\ timeoutReports = {}
    \* constructor: this.panel = null, this.isVisible = false
    /\ panel = 0
    /\ isVisible = FALSE
    /\ attachedPanels = {}
    /\ showsAwaiting = 0
    /\ showTimers = 0
    /\ panelsCreated = 0
    /\ lastCall = "constructor"
    \* constructor: new FrameDecorator()
    /\ decoratedElements = <<>>
    /\ frameType = "none"
    /\ lastDestroyed = {}

\* The state after the page has constructed the three systems.
Init ==
    /\ SubInit
    \* One construction, for the specifications that do not run the ocean.
    /\ oceanMouseX = 0
    /\ oceanMouseY = 0
    /\ elapsedTime = 0
    /\ frames = 0
    /\ OceanLightsInit
    /\ positions1 = <<300000, -200000, 2500000>>
    /\ originalPositions = <<300000, -200000, 2500000>>
    /\ velocities = << [x |-> 4999, y |-> 6999, z |-> 4999] >>
    /\ colors1 = <<800, 900, 800>>
    /\ positions2 = <<-11000000, 10999999, 4999999>>
    /\ positions3 = <<12999999, 12999999, 5999999>>
    /\ CamInit
    /\ PageInit

CamNext ==
    \/ \E p \in ClientDraws : CamMove(p[1], p[2])
    \/ \E c \in CameraIds, intensity \in IntensityDraws : CamAddCamera(c, intensity)
    \/ \E c \in CameraIds, b \in BaseDraws :
          UpdateCameraBasePosition(c, b[1], b[2], b[3])
    \/ CameraUpdate

CamSpec == Init /\ [][CamNext]_vars

\* Both cameras of the page registered, in any order with the other calls
BaseNext ==
    \/ \E c \in CameraIds, intensity \in IntensityDraws : BaseAddCamera(c, intensity)
    \/ \E c \in CameraIds, b \in BaseDraws :
          UpdateCameraBasePosition(c, b[1], b[2], b[3])
    \/ CameraUpdate

BaseSpec == Init /\ [][BaseNext]_vars

\* The pointer and its idle timer
PointerNext ==
    \/ \E p \in ClientDraws : PointerMove(p[1], p[2])
    \/ IdleTimeout
    \/ \E d \in PointerDeltas : CamTick(d)

\* Time passes and a timer that is due runs.
LivePointerSpec ==
    /\ Init
    /\ [][PointerNext]_vars
    /\ WF_vars(IdleTimeout)
    /\ WF_vars(\E d \in PointerDeltas : CamTick(d))

\* update() runs every animation frame
LiveCamSpec ==
    /\ Init
    /\ [][CamNext]_vars
    /\ WF_vars(CameraUpdate)

SubNext ==
    \/ \E d \in Deltas : Tick(d)
    \/ OnModelLoaded
    \/ OnModelError
    \/ \E m \in SubMouseDraws : SubUpdateMousePosition(m[1], m[2])
    \/ Update

Spec == Init /\ [][SubNext]_vars

\* The same, over the draws of the particle layers.
OceanDrawnInit ==
    /\ SubInit
    \* OceanBackground constructor: init -> setupLighting, setupParticles
    /\ oceanMouseX = 0
    /\ oceanMouseY = 0
    /\ elapsedTime = 0
    /\ frames = 0
    /\ OceanLightsInit
    /\ \E draws \in [1..ParticleCount1 -> { [rest |-> <<300000, -200000, 2500000>>, velocity |-> [x |-> 4999, y |-> 6999, z |-> 4999]], [rest |-> <<8999999, -9000000, -4000000>>, velocity |-> [x |-> -5000, y |-> -1000, z |-> -5000]] }] :
          /\ positions1 = Flat([i \in 1..ParticleCount1 |-> draws[i].rest],
                               PositionArrayLength(ParticleCount1))
          /\ originalPositions = Flat([i \in 1..ParticleCount1 |-> draws[i].rest],
                                      ParticleCount1 * 3)
          /\ velocities = [i \in 1..ParticleCount1 |-> draws[i].velocity]
    /\ colors1 = Flat([i \in 1..ParticleCount1 |-> <<800, 900, 800>>],
                      ParticleCount1 * 3)
    /\ \E draws \in [1..ParticleCount2 -> { <<-11000000, 10999999, 4999999>>, <<10999999, -11000000, -5000000>> }] :
          positions2 = Flat(draws, ParticleCount2 * 3)
    /\ \E draws \in [1..ParticleCount3 -> { <<12999999, 12999999, 5999999>>, <<-13000000, -13000000, -6000000>> }] :
          positions3 = Flat(draws, ParticleCount3 * 3)
    /\ CamInit
    /\ PageInit

OceanSpec == OceanDrawnInit /\ [][OceanNext]_vars

\* The scene under scrolling: the page calls updateScrollDepth from its
\* scroll handler and update() from the animation loop, in any order.
\* The scene under scrolling is followed for this many frames.
ScrollFrames == 4

ScrollFrameUpdate ==
    /\ frames < ScrollFrames
    /\ OceanUpdateBody(ParticleCount1, ParticleCount2, ParticleCount3)

ScrollNext ==
    \/ \E p \in ScrollDraws : OceanUpdateScrollDepth(p)
    \/ \E m \in MouseDraws : OceanUpdateMousePosition(m[1], m[2])
    \/ ScrollFrameUpdate

ScrollSpec == Init /\ [][ScrollNext]_vars

SchedSpec == Init /\ [][SchedNext]_vars

LoopSpec == Init /\ [][LoopNext]_vars

BuildSpec == Init /\ [][BuildNext]_vars

ListSpec == Init /\ [][ListNext]_vars

KelpSpec == Init /\ [][KelpNext]_vars

PreviewSpec == Init /\ [][PreviewNext]_vars

PanelSpec == Init /\ [][PanelNext]_vars

FrameSpec == Init /\ [][FrameNext]_vars

\* The Kelp with its disposal: the load callbacks, update() and dispose() in
\* any order
KelpDisposeNext ==
    \/ KelpOnModelLoaded
    \/ KelpOnModelError
    \/ \E t \in KelpTimeDraws : KelpUpdate(t)
    \/ Dispose("kelp")

KelpDisposeSpec == Init /\ [][KelpDisposeNext]_vars

\* Both GLB models fail to load: the loaders' error callbacks run and the
\* page keeps calling update() on the submarine and on the kelp.
FailNext ==
    \/ \E d \in Deltas : Tick(d)
    \/ OnModelError
    \/ KelpOnModelError
    \/ \E m \in SubMouseDraws : SubUpdateMousePosition(m[1], m[2])
    \/ Update
    \/ \E t \in KelpTimeDraws : KelpUpdate(t)

LiveFailSpec ==
    /\ Init
    /\ [][FailNext]_vars
    /\ WF_vars(\E d \in Deltas : Tick(d))
    /\ WF_vars(Update)

\* update() keeps being called and the clock keeps advancing.
LiveSpec ==
    /\ Init
    /\ [][SubNext]_vars
    /\ WF_vars(\E d \in Deltas : Tick(d))
    /\ WF_vars(Update)

AllLightsFull ==
    /\ \A i \in DOMAIN spotlights : spotlights[i] = FullIntensity
    /\ \A i \in DOMAIN spotlightBeams :
          /\ spotlightBeams[i].opacity = spotlightBeams[i].baseOpacity
          /\ spotlightBeams[i].baseOpacity = BaseOpacity

(***************************************************************************)
(* C1: flicker termination.  With update() called and the clock advancing  *)
(* past every state duration, a started sequence always ends, and it ends  *)
(* in the step that increments flickerCounter to maxFlickersInSequence * 2 *)
(* + 1: the sequence never ends on an earlier increment and the counter    *)
(* never goes past maxFlickersInSequence * 2 while the sequence runs.      *)
(***************************************************************************)
C1_FlickerTerminates ==
    /\ isFlickering ~> ~isFlickering
    /\ [][(isFlickering /\ ~isFlickering') =>
            /\ flickerCounter = maxFlickersInSequence * 2
            /\ flickerCounter' = maxFlickersInSequence * 2 + 1
            /\ maxFlickersInSequence' = maxFlickersInSequence]_vars
    /\ [](isFlickering =>
            /\ maxFlickersInSequence \in 2..8
            /\ flickerCounter <= maxFlickersInSequence * 2)

C1_Witness ==
    /\ ~isFlickering
    /\ maxFlickersInSequence = 8
    /\ flickerCounter = 17

(***************************************************************************)
(* C2: restore on exit.  The step that takes the state from Flickering to  *)
(* Steady leaves every spotlight at intensity 1.5 and every beam at its    *)
(* base opacity 0.18.                                                      *)
(***************************************************************************)
C2_RestoreOnExit ==
    [][(isFlickering /\ ~isFlickering') =>
        /\ \A i \in DOMAIN spotlights' : spotlights'[i] = FullIntensity
        /\ \A i \in DOMAIN spotlightBeams' :
              /\ spotlightBeams'[i].opacity = spotlightBeams'[i].baseOpacity
              /\ spotlightBeams'[i].baseOpacity = BaseOpacity]_vars

C2_Witness ==
    /\ ~isFlickering
    /\ flickerCounter = maxFlickersInSequence * 2 + 1
    /\ Len(spotlights) = SpotlightCount
    /\ AllLightsFull

(***************************************************************************)
(* C3, as claimed: with maxFlickersInSequence = 2 a finished sequence has  *)
(* toggled the spotlights exactly 5 times, once for each counter value     *)
(* 1..5.                                                                   *)
(***************************************************************************)
C3_FiveToggles ==
    (~isFlickering /\ maxFlickersInSequence = 2 /\ flickerCounter = 5)
        => toggleCount = 5

(***************************************************************************)
(* C3, amended: with maxFlickersInSequence = 2 the counter values 1..4     *)
(* each toggle the spotlights (4 toggles) and the fifth increment toggles  *)
(* nothing: it is the return to Steady, with every light at 1.5.           *)
(***************************************************************************)
C3_FourTogglesThenSteady ==
    maxFlickersInSequence = 2 =>
        /\ isFlickering => (flickerCounter <= 4 /\ toggleCount = flickerCounter)
        /\ ~isFlickering =>
              (flickerCounter = 5 /\ toggleCount = 4 /\ AllLightsFull)

C3_Witness ==
    /\ ~isFlickering
    /\ maxFlickersInSequence = 2
    /\ flickerCounter = 5
    /\ toggleCount = 4
    /\ Len(spotlights) = SpotlightCount

(***************************************************************************)
(* C4: flickerCounter changes only by an increment of one in a step that   *)
(* begins with isFlickering true, or by the reset to 0 in a step that      *)
(* starts a sequence; every step that starts a sequence leaves it 0.       *)
(***************************************************************************)
C4_CounterInvariant ==
    [][/\ (flickerCounter' # flickerCounter) =>
            \/ isFlickering /\ flickerCounter' = flickerCounter + 1
            \/ ~isFlickering /\ isFlickering' /\ flickerCounter' = 0
       /\ (~isFlickering /\ isFlickering') => flickerCounter' = 0]_vars

\* a second sequence has started: the counter was reset from 2*max+1
C4_Witness ==
    /\ isFlickering
    /\ flickerCounter = 0
    /\ lastFlickerTime > StartTime

(***************************************************************************)
(* C5: an update() call starts a sequence if and only if isFlickering is   *)
(* false and now - lastFlickerTime > nextFlickerInterval.  On entry the    *)
(* counter is 0, maxFlickersInSequence is in 2..8 and the first state      *)
(* duration is in [100,300] ms.  nextFlickerInterval is drawn from         *)
(* [10000,20000] ms when a sequence ends, and changes in no other step.    *)
(***************************************************************************)
C5_SteadyToFlickering ==
    [][/\ Update =>
            ((~isFlickering /\ now - lastFlickerTime > nextFlickerInterval)
                <=> (~isFlickering /\ isFlickering'))
       /\ (~isFlickering /\ isFlickering') =>
            /\ Update
            /\ flickerCounter' = 0
            /\ maxFlickersInSequence' \in 2..8
            /\ currentFlickerStateDuration' \in 100..300
       /\ (isFlickering /\ ~isFlickering') =>
            nextFlickerInterval' \in 10000..20000
       /\ (nextFlickerInterval' # nextFlickerInterval) =>
            (isFlickering /\ ~isFlickering')]_vars

C5_Witness ==
    /\ isFlickering
    /\ flickerCounter = 0
    /\ lastFlickerStateChangeTime = now
    /\ maxFlickersInSequence = 8
    /\ currentFlickerStateDuration = 299
    /\ nextFlickerInterval = 19999

(***************************************************************************)
(* The end-to-end wrap scenario: a layer-1 style layer of three particles  *)
(* at rest at (0,0,0), (5,5,5) and (-20,0,0) with zero velocities, updated *)
(* at any elapsed time with the pointer anywhere on a grid over [-1,1]^2   *)
(* (the repulsion point (5 mx, 5 my, 3) is then at least 2 units away from *)
(* each of the three particles).                                           *)
(***************************************************************************)
\* update() calls followed in the scenario.
ScenarioFrames == 2

ScenarioRest == <<0, 0, 0, 5000000, 5000000, 5000000, -20000000, 0, 0>>

ScenarioUpdate ==
    /\ frames < ScenarioFrames
    /\ OceanUpdateBody((Len(ScenarioRest) \div 3), ParticleCount2, ParticleCount3)

WrapInit ==
    /\ SubInit
    /\ oceanMouseX \in {-1000, -500, 0, 500, 1000}
    /\ oceanMouseY \in {-1000, -500, 0, 500, 1000}
    /\ elapsedTime \in {1000 * k : k \in 0..7}
    /\ frames = 0
    /\ OceanLightsInit
    /\ positions1 = ScenarioRest
    /\ originalPositions = ScenarioRest
    /\ velocities = [i \in 1..(Len(ScenarioRest) \div 3) |-> [x |-> 0, y |-> 0, z |-> 0]]
    /\ colors1 = Flat([i \in 1..(Len(ScenarioRest) \div 3) |-> <<800, 900, 800>>],
                      (Len(ScenarioRest) \div 3) * 3)
    /\ positions2 = <<-11000000, 10999999, 4999999>>
    /\ positions3 = <<12999999, 12999999, 5999999>>
    /\ CamInit
    /\ PageInit

WrapSpec == WrapInit /\ [][ScenarioUpdate]_vars

\* const jitterSpeed = 0.001, the most the jitter moves a coordinate per frame
JitterSpeed == 1000

(***************************************************************************)
(* C6: particle bounds.  After any number of update() calls, with any      *)
(* pointer, every coordinate of every particle is within its layer's wrap  *)
(* bound plus the most one frame can add: layer 1, 18 on x and y and 10 on *)
(* z; layer 2, 17 on y; layer 3, 20 on x and on y.                         *)
(***************************************************************************)
\* velocity (at most 0.007) + jitter (0.001) + repulsion (at most 0.6 * 0.6 * 0.012)
MaxStep1 == 7000 + JitterSpeed + 4320

C6_ParticleBounds ==
    /\ \A k \in DOMAIN positions1 :
          Abs(positions1[k]) <=
              (IF (k - 1) % 3 = 2 THEN 10000000 ELSE 18000000) + MaxStep1
    /\ \A k \in DOMAIN positions2 :
          (k - 1) % 3 = 1 => Abs(positions2[k]) <= 17000000 + 5000
    /\ \A k \in DOMAIN positions3 :
          /\ (k - 1) % 3 = 0 => Abs(positions3[k]) <= 20000000 + 3000
          /\ (k - 1) % 3 = 1 => Abs(positions3[k]) <= 20000000 + 4000

\* layer 2 has wrapped on y and layer 3 has changed sign on x
C6_Witness ==
    /\ frames > 0
    /\ \E k \in DOMAIN positions2 : (k - 1) % 3 = 1 /\ positions2[k] < -11000000
    /\ \E k \in DOMAIN positions3 : (k - 1) % 3 = 0 /\ positions3[k] < -19000000
    /\ \E k \in DOMAIN positions1 : positions1[k] # originalPositions[k]

(***************************************************************************)
(* C7, as claimed: the three arrays of layer 1 have the same length.       *)
(***************************************************************************)
C7_EqualLengths ==
    /\ Len(positions1) = Len(originalPositions)
    /\ Len(originalPositions) = Len(velocities)

(***************************************************************************)
(* C7, amended: positions and originalPositions are flat arrays of three   *)
(* numbers per particle and velocities holds one object per particle, so   *)
(* positions.length = originalPositions.length = 3 * velocities.length     *)
(* = 3 * particleCount after construction and after every update() call.   *)
(***************************************************************************)
C7_ParticleCount ==
    /\ Len(positions1) = Len(originalPositions)
    /\ Len(originalPositions) = 3 * Len(velocities)
    /\ Len(velocities) = ParticleCount1

C7_Witness ==
    /\ frames > 1
    /\ Len(positions1) = 3 * ParticleCount1
    /\ positions1 # originalPositions

DistX(k, positions) ==
    LET c == cameras[k].camera
    IN  Abs(Target(baseCameraPositions[c].x, mouseX, cameras[k].parallaxIntensity)
            - positions[c].x)

DistY(k, positions) ==
    LET c == cameras[k].camera
    IN  Abs(Target(baseCameraPositions[c].y, mouseY, cameras[k].parallaxIntensity)
            - positions[c].y)

\* The eased step (target - position) * easingFactor is at least half a unit
\* of the resolution, and so changes the position, from this distance on.
MovingDistance == 500 \div EasingFactor

C10_ZUntouched ==
    [][CameraUpdate =>
        \A c \in CameraIds : cameraPosition'[c].z = cameraPosition[c].z]_vars

\* updates have run after updateCameraBasePosition(camera, 1, undefined, 3)
C10_Witness ==
    \E k \in DOMAIN cameras :
        LET c == cameras[k].camera
        IN  /\ baseCameraPositions[c].x = 100
            /\ baseCameraPositions[c].z = 300
            /\ cameraPosition[c].z # 300
            /\ cameraPosition[c].x # 0
            /\ DistX(k, cameraPosition) < MovingDistance

(***************************************************************************)
(* C11: scroll modulator idempotence.  Every call updateScrollDepth(p)     *)
(* leaves the fog colour, the fog density, the scene background and the    *)
(* ambient, directional and cursor light intensities exactly as the first  *)
(* call with that p left them, whatever was called in between: a second    *)
(* call in a row with the same p changes nothing, and calls with other     *)
(* values of p leave no trace.                                             *)
(***************************************************************************)
C11_ScrollIdempotent ==
    [][\A p \in ScrollDraws :
          OceanUpdateScrollDepth(p) =>
              /\ ScrollOutputs' = scrollResults'[p][1]
              /\ (scrollCalls # <<>> /\ scrollCalls[Len(scrollCalls)] = p
                  /\ ScrollOutputs = scrollResults[p][1])
                    => ScrollOutputs' = ScrollOutputs]_vars

\* updateScrollDepth(1), then updateScrollDepth(0.5) twice in a row
C11_Witness ==
    /\ scrollCalls = <<1000, 500, 500>>
    /\ frames = 0
    /\ fog.density = 115000
    /\ fog.color = <<20500, 43500, 40000>>

(***************************************************************************)
(* C12: frame scheduler order.  Each execution of animate() calls update() *)
(* on exactly the systems that have an update function, once per           *)
(* registration and in the order of the addSystem calls: the calls of one  *)
(* execution are the addSystem arguments with the entries without an       *)
(* update function left out, an actor registered k times appearing k       *)
(* times.                                                                  *)
(***************************************************************************)
IsActor(system) == system \in Actors

C12_SchedulerOrder ==
    [][animates' # animates =>
          updateLog' = SelectSeq(registered, IsActor)]_vars

\* a null entry skipped, the submarine registered twice, the ocean between
C12_Witness ==
    /\ animates > 0
    /\ registered = <<"submarine", "null", "ocean", "submarine">>
    /\ updateLog = <<"submarine", "ocean", "submarine">>

(***************************************************************************)
(* C13: disposal ordering.  Once dispose() has run on an actor, no later   *)
(* execution of animate() calls that actor's update(): the actor has left  *)
(* the registry before its resources were released.                        *)
(***************************************************************************)
C13_NoUpdateAfterDispose ==
    [][animates' # animates =>
          \A i \in DOMAIN updateLog' : updateLog'[i] \notin disposed]_vars

(***************************************************************************)
(* C14: pointer idle debounce.  At most one idle timer is pending at any   *)
(* time.  Every pointer move sets isMoving and leaves exactly the timer it *)
(* has just set, due 100 ms later.  isMoving turns false only when 100 ms  *)
(* have passed since the last move, and once it is true it does turn false *)
(* unless another move arrives.                                            *)
(***************************************************************************)
C14_IdleDebounce ==
    /\ [](Cardinality(timers) <= 1)
    /\ [][/\ moves' # moves =>
                /\ isMoving'
                /\ timers' = {[id |-> cursorTimeout', due |-> camNow + IdleDelay]}
          /\ (isMoving /\ ~isMoving') =>
                /\ moves' = moves
                /\ camNow >= lastMoveTime + IdleDelay]_vars
    /\ \A n \in 0..MaxPointerMoves :
          (isMoving /\ moves = n) ~> (~isMoving \/ moves > n)

\* two moves 50 ms apart, the idle timer of the second has run
C14_Witness ==
    /\ moves = 2
    /\ lastMoveTime = 50
    /\ camNow = 150
    /\ ~isMoving
    /\ timers = {}

(***************************************************************************)
(* C15: missing construction input.  No constructor call throws; a         *)
(* component constructed without its required input is inactive and has    *)
(* logged a diagnostic.                                                    *)
(***************************************************************************)
C15_NeverThrows ==
    \A c \in Classes :
        /\ constructed[c] # "thrown"
        /\ constructed[c] = "inactive" => c \in diagnostics

(***************************************************************************)
(* C16: asset load failure.  After the loaders' error callbacks no         *)
(* spotlight is ever attached; the flicker state machine still starts a    *)
(* sequence whenever an update() finds the interval passed, every sequence *)
(* it starts ends, and it ends on the increment of flickerCounter to       *)
(* maxFlickersInSequence * 2 + 1; Kelp.update() leaves kelpObjects empty.  *)
(***************************************************************************)
C16_LoadFailure ==
    /\ [](modelState = "failed" => spotlights = <<>> /\ spotlightBeams = <<>>)
    /\ (modelState = "failed" /\ isFlickering) ~> ~isFlickering
    /\ [][modelState = "failed" =>
            /\ (/\ ~isFlickering
                /\ framePending /\ ~framePending'
                /\ StartsSequence(isFlickering, now, lastFlickerTime,
                                  nextFlickerInterval)) => isFlickering'
            /\ (isFlickering /\ ~isFlickering') =>
                  flickerCounter' = maxFlickersInSequence * 2 + 1]_vars
    /\ [][(kelpModelState = "failed" /\ kelpFrames' # kelpFrames) =>
            kelpObjects' = <<>>]_vars

\* both loads have failed, a sequence of 8 flickers has run and ended, the
\* kelp has been updated
C16_Witness ==
    /\ modelState = "failed"
    /\ kelpModelState = "failed"
    /\ ~isFlickering
    /\ maxFlickersInSequence = 8
    /\ flickerCounter = 17
    /\ kelpFrames > 0

(***************************************************************************)
(* C17: sway determinism.  An update() leaves the instances' userData,     *)
(* their number and their rotation.y as they were.  The rotation.x and     *)
(* rotation.z it writes depend on the userData and the time only: an       *)
(* update() at the time of the first update() of the same instances writes *)
(* the rotations the first one wrote, whatever was written in between, and *)
(* instances with equal userData always have equal rotation.x and          *)
(* rotation.z.                                                             *)
(***************************************************************************)
C17_SwayDeterminism ==
    /\ [][kelpFrames' # kelpFrames =>
            /\ DOMAIN kelpObjects' = DOMAIN kelpObjects
            /\ \A i \in DOMAIN kelpObjects :
                  /\ kelpObjects'[i].userData = kelpObjects[i].userData
                  /\ kelpObjects'[i].rotation.y = kelpObjects[i].rotation.y]_vars
    /\ [][\A t \in KelpTimeDraws :
            (/\ KelpUpdate(t)
             /\ kelpFirst # <<>>
             /\ kelpFirst[1] = t
             /\ Len(kelpFirst[2]) = Len(kelpObjects))
              => KelpRotations(kelpObjects') = kelpFirst[2]]_vars
    /\ [](\A i, j \in DOMAIN kelpObjects :
            kelpObjects[i].userData = kelpObjects[j].userData =>
                /\ kelpObjects[i].rotation.x = kelpObjects[j].rotation.x
                /\ kelpObjects[i].rotation.z = kelpObjects[j].rotation.z)

\* three updates of the loaded instances, the last one at the time of the
\* first; the two instances differ in their sway intensity only
C17_Witness ==
    /\ kelpFrames = 3
    /\ kelpFirst # <<>>
    /\ kelpFirst[1] = 10000
    /\ Len(kelpObjects) = KelpCount
    /\ KelpRotations(kelpObjects) = kelpFirst[2]
    /\ kelpObjects[1].userData.swayIntensityX # kelpObjects[2].userData.swayIntensityX
    /\ kelpObjects[1].rotation.x # kelpObjects[2].rotation.x
    /\ kelpObjects[1].rotation.x # kelpObjects[1].userData.baseRotationX

(***************************************************************************)
(* C18: ListManager id uniqueness.  After any sequence of addListElement   *)
(* and removeListElement calls no two items of the list have the same id.  *)
(***************************************************************************)
C18_UniqueIds ==
    \A i, j \in DOMAIN items : i # j => items[i].id # items[j].id

(***************************************************************************)
(* C19: flicker toggle parity.  Every increment of flickerCounter that     *)
(* does not end the sequence sets the lights by the parity of the new      *)
(* counter: even, every spotlight at intensity 1.5, every beam at its      *)
(* baseOpacity and the next state duration within 50..150 ms; odd, every   *)
(* spotlight within 0.05..0.3, every beam at opacity 0.02 and the next     *)
(* state duration within 20..100 ms.  The first toggle of a sequence is    *)
(* odd, so the toggles alternate off, on, off, ...                         *)
(***************************************************************************)
C19_ToggleParity ==
    [][(isFlickering /\ isFlickering' /\ flickerCounter' = flickerCounter + 1) =>
         IF flickerCounter' % 2 = 0
         THEN /\ \A i \in DOMAIN spotlights' : spotlights'[i] = FullIntensity
              /\ \A i \in DOMAIN spotlightBeams' :
                    spotlightBeams'[i].opacity = spotlightBeams'[i].baseOpacity
              /\ currentFlickerStateDuration' \in 50..150
         ELSE /\ \A i \in DOMAIN spotlights' : spotlights'[i] \in 50..300
              /\ \A i \in DOMAIN spotlightBeams' :
                    spotlightBeams'[i].opacity = DimOpacity
              /\ currentFlickerStateDuration' \in 20..100]_vars

(***************************************************************************)
(* C20: reduced background layers.  As the claim states it: an update      *)
(* changes exactly one coordinate of every particle of layer 2 and of      *)
(* layer 3.                                                                *)
(***************************************************************************)
ChangedAxes(old, new, i) ==
    {a \in 1..3 : new[3 * i + a] # old[3 * i + a]}

C20_OneAxis ==
    [][frames' # frames =>
         /\ \A i \in 0..(Len(positions2) \div 3 - 1) :
               Cardinality(ChangedAxes(positions2, positions2', i)) = 1
         /\ \A i \in 0..(Len(positions3) \div 3 - 1) :
               Cardinality(ChangedAxes(positions3, positions3', i)) = 1]_vars

(***************************************************************************)
(* C20, amended: an update changes exactly the y coordinate of every       *)
(* particle of layer 2 (drift 0.005, wrapping from above 17 to -17) and    *)
(* exactly the x and y coordinates of every particle of layer 3 (x drifts  *)
(* 0.003 and changes sign beyond 20 either way, y drifts 0.004 and wraps   *)
(* from above 20 to -20); the remaining coordinates stay, and wherever the *)
(* pointer is the new position depends on the old one alone.               *)
(***************************************************************************)
C20_ReducedLayers ==
    [][frames' # frames =>
         /\ \A i \in 0..(Len(positions2) \div 3 - 1) :
               /\ ChangedAxes(positions2, positions2', i) = {2}
               /\ positions2'[3 * i + 2] \in {positions2[3 * i + 2] + 5000, -17000000}
         /\ \A i \in 0..(Len(positions3) \div 3 - 1) :
               /\ ChangedAxes(positions3, positions3', i) = {1, 2}
               /\ positions3'[3 * i + 1] \in {positions3[3 * i + 1] + 3000,
                                              -(positions3[3 * i + 1] + 3000)}
               /\ positions3'[3 * i + 2] \in {positions3[3 * i + 2] + 4000, -20000000}]_vars

\* after 2334 updates: layer 2 has wrapped on y (update 1201), layer 3 has
\* wrapped on y (update 1751) and has just changed sign on x
C20_Witness ==
    /\ frames = 2334
    /\ oceanMouseX # 0
    /\ positions2 = <<-11000000, -17000000 + 5000 * (2334 - 1201), 4999999>>
    /\ positions3 = <<-20001999, -20000000 + 4000 * (2334 - 1751), 5999999>>

(***************************************************************************)
(* C21: boundary wrap uses the rest position.  In every update() each      *)
(* coordinate of a layer-1 particle either ends within its axis bound (18  *)
(* on x and y, 10 on z), having moved by no more than one frame's motion,  *)
(* or is set to the negation of its rest coordinate originalPositions[i]   *)
(* (not of its current value); originalPositions is never written.         *)
(***************************************************************************)
Bound1(k) == IF (k - 1) % 3 = 2 THEN 10000000 ELSE 18000000

C21_WrapUsesRest ==
    [][frames' # frames =>
         /\ originalPositions' = originalPositions
         /\ \A k \in DOMAIN positions1 :
               \/ positions1'[k] = -originalPositions[k]
               \/ /\ Abs(positions1'[k]) <= Bound1(k)
                  /\ Abs(positions1'[k] - positions1[k]) <=
                        MaxStep1 + 1
                        + RoundDiv(Abs(originalPositions[k] - positions1[k]) * 5, 1000)]_vars

\* the third particle of the scenario has wrapped twice, each time to the
\* negation of its rest x and not of the x it had
C21_Witness ==
    /\ frames = 2
    /\ originalPositions[7] = -20000000
    /\ positions1[7] = 20000000
    /\ positions1[4] # originalPositions[4]

(***************************************************************************)
(* C22: updateCameraBasePosition frame.  A call                            *)
(* updateCameraBasePosition(camera, x, y, z) overwrites exactly those      *)
(* components of the camera's stored base position whose argument is not   *)
(* undefined, changes no camera.position and no other camera's base        *)
(* position, and changes nothing for a camera never given to addCamera.    *)
(***************************************************************************)
C22_BasePositionFrame ==
    [][\A c \in CameraIds, b \in BaseDraws :
          UpdateCameraBasePosition(c, b[1], b[2], b[3]) =>
             /\ cameraPosition' = cameraPosition
             /\ cameras' = cameras
             /\ DOMAIN baseCameraPositions' = DOMAIN baseCameraPositions
             /\ \A o \in DOMAIN baseCameraPositions :
                   o # c => baseCameraPositions'[o] = baseCameraPositions[o]
             /\ c \in DOMAIN baseCameraPositions =>
                   /\ baseCameraPositions'[c].x =
                         IF b[1] = Undefined THEN baseCameraPositions[c].x ELSE b[1][1]
                   /\ baseCameraPositions'[c].y =
                         IF b[2] = Undefined THEN baseCameraPositions[c].y ELSE b[2][1]
                   /\ baseCameraPositions'[c].z =
                         IF b[3] = Undefined THEN baseCameraPositions[c].z ELSE b[3][1]]_vars

\* both cameras registered; updateCameraBasePosition(camera 1, 1, undefined, 3)
\* has moved the base of camera 1 on x and z alone while camera 1 was being
\* eased, and the base of camera 2 is where addCamera found it
C22_Witness ==
    /\ DOMAIN baseCameraPositions = {1, 2}
    /\ baseUpdates = 1
    /\ baseCameraPositions[1] = [x |-> 100, y |-> 0, z |-> 300]
    /\ baseCameraPositions[2] = [x |-> 0, y |-> 0, z |-> 400]
    /\ cameraPosition[1].x \notin {0, 100}
    /\ cameraPosition[1].z = 500

(***************************************************************************)
(* C23: scroll dimming survives frames.  Once updateScrollDepth(p) has     *)
(* been called, the cursor point light and the cursor ambient light have   *)
(* the intensities 2.5 * (1 - 0.3 p) and 1.2 * (1 - 0.3 p) of the last     *)
(* call in every later state, whatever the number of update() calls since; *)
(* with p = 0 these are the construction values 2.5 and 1.2.               *)
(***************************************************************************)
C23_DimmingSurvives ==
    scrollCalls # <<>> =>
        /\ cursorPointLight.intensity = RoundDiv(25 * (10000 - 3 * scrollDepth), 100)
        /\ cursorAmbientLight.intensity = RoundDiv(12 * (10000 - 3 * scrollDepth), 100)

(***************************************************************************)
(* C24: steady means full power.  In every state in which isFlickering is  *)
(* false every attached spotlight has intensity 1.5 and every beam has its *)
(* base opacity, also when the load callback attached the spotlights while *)
(* a flicker sequence was running.                                         *)
(***************************************************************************)
C24_SteadyFullPower ==
    ~isFlickering =>
        /\ \A i \in DOMAIN spotlights : spotlights[i] = FullIntensity
        /\ \A i \in DOMAIN spotlightBeams :
              spotlightBeams[i].opacity = spotlightBeams[i].baseOpacity

\* the model was attached during a sequence, the sequence went on to dim the
\* lights and has ended
C24_Witness ==
    /\ ~isFlickering
    /\ attachedWhileFlickering
    /\ Len(spotlights) = SpotlightCount
    /\ flickerCounter = maxFlickersInSequence * 2 + 1
    /\ toggleCount > 0

(***************************************************************************)
(* C25: no early flicker.  No flicker sequence starts until more than      *)
(* nextFlickerInterval of wall-clock time has passed since the Submarine   *)
(* was constructed: a step that starts a sequence happens more than        *)
(* nextFlickerInterval (itself at least 10000 ms) after StartTime, so the  *)
(* first update() after construction leaves isFlickering false.            *)
(***************************************************************************)
C25_NoEarlyFlicker ==
    [][(~isFlickering /\ isFlickering') =>
          /\ nextFlickerInterval >= 10000
          /\ now - StartTime > nextFlickerInterval]_vars

(***************************************************************************)
(* C26: single animation loop.  After any number of start() calls at most  *)
(* one requestAnimationFrame callback of the scene manager is pending, so  *)
(* that a display frame runs animate(), and with it every registered       *)
(* system's update, at most once.                                          *)
(***************************************************************************)
C26_SingleLoop ==
    rafPending <= 1

(***************************************************************************)
(* C27: Kelp dispose is final.  Once Kelp.dispose() has run, kelpObjects   *)
(* is empty in every later state (no instance is created and added to      *)
(* kelpGroup any more), also when the load callback onModelLoaded fires    *)
(* after dispose.                                                          *)
(***************************************************************************)
C27_DisposeFinal ==
    "kelp" \in disposed => kelpObjects = <<>>

(***************************************************************************)
(* C28: WebsitePreview load outcome.  In every interleaving of the load    *)
(* event, the error event, the 10 s timeout and updateUrl calls: isLoaded  *)
(* and hasError are never both true, onError is invoked at most once while *)
(* any one url is set, and the timeout reports an error only for the url   *)
(* it was armed under.                                                     *)
(***************************************************************************)
C28_LoadOutcome ==
    /\ ~(isLoaded /\ hasError)
    /\ \A u \in DOMAIN onErrorCalls : onErrorCalls[u] <= 1
    /\ \A r \in timeoutReports : r[1] = r[2]

(***************************************************************************)
(* C29: single colour panel.  In every interleaving of show(), hide(),     *)
(* toggle() and resetColors() calls, also with calls made while a show()   *)
(* is suspended at its await, at most one #color-config-panel element is   *)
(* attached to the document, and whenever no call is in progress isVisible *)
(* is true exactly when panel is non-null and attached.                    *)
(***************************************************************************)
C29_SinglePanel ==
    /\ Cardinality(attachedPanels) <= 1
    /\ (showsAwaiting = 0 /\ showTimers = 0) =>
          (isVisible <=> (panel # 0 /\ panel \in attachedPanels))

(***************************************************************************)
(* C30: FrameDecorator keeps its elements.  switchFrameType(newFrameType)  *)
(* destroys the old decorator of every decorated element and leaves        *)
(* getDecoratedElements() as it was before the call, for every frame type  *)
(* including 'none'; undecorate(element) removes exactly that element.     *)
(***************************************************************************)
C30_KeepsElements ==
    [][/\ \A t \in FrameTypes, available \in BOOLEAN :
            SwitchFrameType(t, available) =>
               /\ lastDestroyed' = DOMAIN decoratedElements
               /\ DOMAIN decoratedElements' = DOMAIN decoratedElements
       /\ \A e \in Elements :
            Undecorate(e) =>
               DOMAIN decoratedElements' = DOMAIN decoratedElements \ {e}]_vars

====
